---- MODULE Spec2Model ----
(***************************************************************************)
(* Model of the visualization configuration engine of the real-time        *)
(* console frontend: key normalization, row normalization, series          *)
(* detection, table/CSV projection and the component that drives them.     *)
(*                                                                         *)
(* JavaScript values are modelled as tagged records.  A number is held as  *)
(* an integer count of thousandths (its decimal literal); a string is a    *)
(* TLA+ string, read character by character with SubSeq; an object is a    *)
(* sequence of key/value entries in insertion order.                       *)
(***************************************************************************)
EXTENDS Integers, Sequences, FiniteSets, TLC

VARIABLES
    component,      \* which variant of the component is mounted
    data,           \* prop: the caller's rows (or Null when absent)
    visualizations, \* prop: the caller's list of visualization configs
    activeTab,      \* useState("option-0"): index of the active tab
    processedData,  \* the memoized normalized rows of the last render
    view,           \* what the last render handed to the chart adapter
    csv,            \* the last exported CSV text (NoCsv before any export)
    rawKey,         \* key normalizer harness: the column reference
    keyOut,         \* key normalizer harness: the last result
    query,          \* ChatInput useState(''): the text of the textarea
    messages,       \* ChatInterface useState([]): the chat so far
    isLoading,      \* ChatInterface useState(false)
    error,          \* ChatInterface useState(null)
    contextId,      \* ChatInterface useState(null)
    calls,          \* the calls of handleQuery, each where its awaits left it
    shown           \* the last committed render of ChatInterface: the
                    \* isLoading prop of ChatInput and the props of every
                    \* QueryVisualization

vizVars == <<component, data, visualizations, activeTab, processedData, view,
             csv, rawKey, keyOut>>
chatVars == <<query, messages, isLoading, error, contextId, calls, shown>>
vars == <<component, data, visualizations, activeTab, processedData, view,
          csv, rawKey, keyOut, query, messages, isLoading, error, contextId,
          calls, shown>>

(***************************************************************************)
(* JavaScript values                                                       *)
(***************************************************************************)
Num(n) == [t |-> "number", n |-> n, s |-> ""]
Text(s) == [t |-> "string", n |-> 0, s |-> s]
Null == [t |-> "null", n |-> 0, s |-> ""]
Undefined == [t |-> "undefined", n |-> 0, s |-> ""]

typeof(v) == IF v.t = "null" THEN "object" ELSE v.t

\* F applied to the value of v: v is computed once, as a JavaScript
\* expression assigned to a const is
Bind(v, F(_)) == CHOOSE r \in {F(x) : x \in {v}} : TRUE

\* v ?? w
Nullish(v) == v.t \in {"null", "undefined"}
Coalesce(v, w) == IF Nullish(v) THEN w ELSE v

\* ToBoolean(v): null, undefined, 0 and "" are falsy
Truthy(v) ==
    CASE v.t = "number" -> v.n # 0
      [] v.t = "string" -> v.s # ""
      [] OTHER -> FALSE

(***************************************************************************)
(* Strings                                                                 *)
(***************************************************************************)
CharAt(s, i) == SubSeq(s, i, i)

UpperLetters == "ABCDEFGHIJKLMNOPQRSTUVWXYZ"
LowerLetters == "abcdefghijklmnopqrstuvwxyz"

ToLowerChar(c) ==
    IF \E i \in 1..Len(UpperLetters) : CharAt(UpperLetters, i) = c
    THEN LET i == CHOOSE j \in 1..Len(UpperLetters) : CharAt(UpperLetters, j) = c
         IN CharAt(LowerLetters, i)
    ELSE c

RECURSIVE toLowerCase(_)
toLowerCase(s) ==
    IF s = "" THEN "" ELSE ToLowerChar(CharAt(s, 1)) \o toLowerCase(Tail(s))

\* the regular expression class \s, over the characters the model uses
IsSpace(c) == c \in {" ", "\t"}

RECURSIVE trimEnd(_)
trimEnd(s) ==
    IF s # "" /\ IsSpace(CharAt(s, Len(s)))
    THEN trimEnd(SubSeq(s, 1, Len(s) - 1))
    ELSE s

RECURSIVE trimStart(_)
trimStart(s) ==
    IF s # "" /\ IsSpace(CharAt(s, 1)) THEN trimStart(Tail(s)) ELSE s

trim(s) == trimStart(trimEnd(s))

startsWith(s, p) == Len(s) >= Len(p) /\ SubSeq(s, 1, Len(p)) = p

\* s.replace(/\s+(tok1|tok2|...)\s*$/, "") and, with ci, the /i flag: the
\* match runs from the start of the whitespace run before the last token to
\* the end of the string.
ReplaceSortSuffix(s, tokens, ci) ==
    LET t == trimEnd(s)
        Fold(x) == IF ci THEN toLowerCase(x) ELSE x
        Hit(tok) == /\ Len(t) > Len(tok)
                    /\ Fold(SubSeq(t, Len(t) - Len(tok) + 1, Len(t))) = tok
                    /\ IsSpace(CharAt(t, Len(t) - Len(tok)))
    IN  IF \E tok \in tokens : Hit(tok)
        THEN LET tok == CHOOSE k \in tokens : Hit(k)
             IN trimEnd(SubSeq(t, 1, Len(t) - Len(tok)))
        ELSE s

\* s.split(sep)[0]: the part of s before the first occurrence of sep
SplitFirst(s, sep) ==
    LET At(i) == SubSeq(s, i, i + Len(sep) - 1) = sep
        Starts == {i \in 1..(Len(s) - Len(sep) + 1) : At(i)}
    IN  IF Starts = {} THEN s
        ELSE LET i == CHOOSE j \in Starts : \A k \in Starts : j <= k
             IN SubSeq(s, 1, i - 1)

(***************************************************************************)
(* Key normalizer                                                          *)
(***************************************************************************)
\* cleanKey with the regular expression taken without its i flag
cleanKeyCaseSensitive(key) ==
    IF Nullish(key) THEN Undefined
    ELSE Text(trim(ReplaceSortSuffix(key.s, {"asc", "desc"}, FALSE)))

\* utils.cleanKey: key?.replace(/\s+(asc|desc)\s*$/i, "").trim()
cleanKey(key) ==
    IF Nullish(key) THEN Undefined
    ELSE Text(trim(ReplaceSortSuffix(key.s, {"asc", "desc"}, TRUE)))

\* AdvancedVisualization getAxisKey: key ? key.replace(/\s+DESC\s*$/, '') : key
getAxisKey(key) ==
    IF ~Truthy(key) THEN key
    ELSE Text(ReplaceSortSuffix(key.s, {"DESC"}, FALSE))

\* the x reference of processData trimmed only, the alias left in
aliasKeyNoSplit(x) ==
    IF ~Truthy(x) THEN Null ELSE Text(trim(x.s))

\* processData: axes?.x ? axes.x.split(' as ')[0].trim() : null
aliasKey(x) ==
    IF ~Truthy(x) THEN Null ELSE Text(trim(SplitFirst(x.s, " as ")))

(***************************************************************************)
(* Numbers.  Number n stands for the binary64 value nearest to n/1000.     *)
(***************************************************************************)
Abs(n) == IF n < 0 THEN -n ELSE n

RECURSIVE Pow2Mod125(_)
Pow2Mod125(s) == IF s = 0 THEN 1 ELSE (2 * Pow2Mod125(s - 1)) % 125

\* the exponent e with 125 * 2^e <= a < 125 * 2^(e+1), for a > 0
RECURSIVE ExpUp(_, _)
ExpUp(a, p) == IF 2 * p <= a THEN 1 + ExpUp(a, 2 * p) ELSE 0
RECURSIVE ExpDown(_)
ExpDown(a) == IF a >= 125 THEN 0 ELSE 1 + ExpDown(2 * a)
Exponent(a) == IF a >= 125 THEN ExpUp(a, 125) ELSE -ExpDown(a)

\* The sign of (the binary64 value nearest to a/1000) - a/1000, for a > 0.
\* a/1000 = (a/125)/8 and the division by 8 is exact, so the 53-bit
\* significand is a*2^s/125 rounded to an integer, with s = 52 - Exponent(a);
\* the remainder of a*2^s modulo 125 tells which way it was rounded.
Binary64Sign(a) ==
    LET s == 52 - Exponent(a)
        r == ((a % 125) * Pow2Mod125(s)) % 125
    IN  IF r = 0 THEN 0 ELSE IF r <= 62 THEN -1 ELSE 1

Digits(n) == ToString(n)
TwoDigits(n) == IF n < 10 THEN "0" \o Digits(n) ELSE Digits(n)
ThreeDigits(n) == IF n < 100 THEN "0" \o TwoDigits(n) ELSE Digits(n)

RECURSIVE StripZeros(_)
StripZeros(s) ==
    IF s # "" /\ CharAt(s, Len(s)) = "0"
    THEN StripZeros(SubSeq(s, 1, Len(s) - 1))
    ELSE s

\* Number.prototype.toFixed(2): the integer c for which c/100 is nearest to
\* the exact binary value, the larger one on a tie; a negative number is
\* formatted from its absolute value behind a "-".
toFixed2(n) ==
    LET a == Abs(n)
        q == a \div 10
        r == a % 10
        c == IF r < 5 THEN q
             ELSE IF r > 5 THEN q + 1
             ELSE IF Binary64Sign(a) < 0 THEN q ELSE q + 1
    IN  (IF n < 0 THEN "-" ELSE "") \o Digits(c \div 100) \o "."
            \o TwoDigits(c % 100)

DigitValue(c) == CHOOSE d \in 0..9 : Digits(d) = c

RECURSIVE ParseDigits(_, _)
ParseDigits(s, acc) ==
    IF s = "" THEN acc
    ELSE ParseDigits(Tail(s), 10 * acc + DigitValue(CharAt(s, 1)))

\* Number(s) for a decimal literal with at most three fraction digits
ParseNumber(s) ==
    LET neg == startsWith(s, "-")
        body == IF neg THEN Tail(s) ELSE s
        ip == SplitFirst(body, ".")
        fp == IF Len(ip) = Len(body) THEN ""
              ELSE SubSeq(body, Len(ip) + 2, Len(body))
        fp3 == SubSeq(fp \o "000", 1, 3)
        m == 1000 * ParseDigits(ip, 0) + ParseDigits(fp3, 0)
    IN  IF neg THEN -m ELSE m

\* Number::toString for the magnitudes of the model (no exponent form)
NumberToString(n) ==
    LET a == Abs(n)
        f == StripZeros(ThreeDigits(a % 1000))
    IN  (IF n < 0 THEN "-" ELSE "") \o Digits(a \div 1000)
            \o (IF f = "" THEN "" ELSE "." \o f)

\* String(v)
String(v) ==
    CASE v.t = "number" -> NumberToString(v.n)
      [] v.t = "string" -> v.s
      [] v.t = "null" -> "null"
      [] OTHER -> "undefined"

\* utils.formatNumber: typeof val === "number" ? Number(val.toFixed(2)) : val
formatNumber(val) ==
    IF typeof(val) = "number"
    THEN Bind(toFixed2(val.n), LAMBDA s : Num(ParseNumber(s)))
    ELSE val

(***************************************************************************)
(* Objects: a sequence of entries [k, v] in insertion order, keys unique.  *)
(***************************************************************************)
Entry(k, v) == [k |-> k, v |-> v]

ObjectKeys(o) == [i \in 1..Len(o) |-> o[i].k]
Has(o, k) == \E i \in 1..Len(o) : o[i].k = k
IndexOfKey(o, k) == CHOOSE i \in 1..Len(o) : o[i].k = k

\* o[k] for a string k
Get(o, k) == IF Has(o, k) THEN o[IndexOfKey(o, k)].v ELSE Undefined

\* o[key] for any value key: the property name is String(key)
GetBy(o, key) == Get(o, String(key))

\* o[k] = v: an existing key keeps its position, a new one goes last
Set(o, k, v) ==
    IF Has(o, k) THEN [o EXCEPT ![IndexOfKey(o, k)].v = v]
    ELSE Append(o, Entry(k, v))

\* the elements of a sequence that satisfy Keep, in order
FilterSeq(seq, Keep(_)) ==
    LET F[i \in 0..Len(seq)] ==
            IF i = 0 THEN <<>>
            ELSE IF Keep(seq[i]) THEN Append(F[i - 1], seq[i]) ELSE F[i - 1]
    IN  F[Len(seq)]

Includes(seq, x) == \E i \in 1..Len(seq) : seq[i] = x

(***************************************************************************)
(* Arrays handed in as props: an array of items, or null                   *)
(***************************************************************************)
Array(items) == [t |-> "array", items |-> items]
NullArray == [t |-> "null", items |-> <<>>]

\* !data || !Array.isArray(data) || !data.length
NoRows(d) == d.t # "array" \/ Len(d.items) = 0

(***************************************************************************)
(* Visualization configs                                                   *)
(***************************************************************************)
Axes(x, y) == [t |-> "object", x |-> x, y |-> y]
NoAxes == [t |-> "undefined", x |-> Undefined, y |-> Undefined]
\* an annotation spec of a config; style is an object or undefined
NoStyle == [t |-> "undefined", stroke |-> Undefined,
            strokeDasharray |-> Undefined, r |-> Undefined, fill |-> Undefined]
Style(stroke, strokeDasharray) ==
    [t |-> "object", stroke |-> stroke, strokeDasharray |-> strokeDasharray,
     r |-> Undefined, fill |-> Undefined]
Anno(type, mode, x, y, label, style) ==
    [type |-> type, mode |-> mode, x |-> x, y |-> y, value |-> Undefined,
     label |-> label, style |-> style]
NoAnnotations == [t |-> "undefined", items |-> <<>>]

VizA(type, axes, annotations) ==
    [t |-> "object", type |-> type, axes |-> axes, annotations |-> annotations]
Viz(type, axes) == VizA(type, axes, NoAnnotations)
UndefinedViz == [t |-> "undefined", type |-> Undefined, axes |-> NoAxes,
                 annotations |-> NoAnnotations]
EmptyViz == Viz(Undefined, NoAxes)

\* axes?.x and axes?.y
AxisX(viz) == IF viz.axes.t = "object" THEN viz.axes.x ELSE Undefined
AxisY(viz) == IF viz.axes.t = "object" THEN viz.axes.y ELSE Undefined

(***************************************************************************)
(* Palettes                                                                *)
(***************************************************************************)
\* COLORS.categorical of the unified engine
COLORS_categorical ==
    << "#2563eb", "#059669", "#d97706", "#dc2626", "#7c3aed",
       "#db2777", "#2563eb", "#059669", "#d97706", "#dc2626" >>

\* COLORS of the tabbed component that calls processData
COLORS ==
    << "#0088FE", "#00C49F", "#FFBB28", "#FF8042",
       "#8884d8", "#82ca9d", "#ffc658", "#ff8042",
       "#00C49F", "#FFBB28", "#FF8042", "#0088FE" >>

\* palette[index % palette.length], index counted from 0
PaletteAtNext(palette, index) == palette[((index + 1) % Len(palette)) + 1]
PaletteAt(palette, index) == palette[(index % Len(palette)) + 1]

(***************************************************************************)
(* Row normalizer of the unified engine (useProcessedData)                 *)
(***************************************************************************)
\* Copy all fields except those starting with '_', numbers formatted
copyFieldsAll(row) ==
    [i \in 1..Len(row) |-> Entry(row[i].k, formatNumber(row[i].v))]
copyFields(row) ==
    LET Copy(processed, e) ==
            IF ~startsWith(e.k, "_")
            THEN Set(processed, e.k, formatNumber(e.v)) ELSE processed
        F[i \in 0..Len(row)] ==
            IF i = 0 THEN <<>>
            ELSE Bind(F[i - 1], LAMBDA processed : Copy(processed, row[i]))
    IN  F[Len(row)]

Category(index) == Text("Category " \o Digits(index + 1))

\* a name that falls back to the row's employeeName before the placeholder
deriveNameWithLabels(processed, index, xAxisKey) ==
    Text(String(Coalesce(IF Truthy(xAxisKey) THEN GetBy(processed, xAxisKey)
                         ELSE Undefined,
                Coalesce(Get(processed, "employeeName"), Category(index)))))

\* processed.name = xAxisKey ? String(processed[xAxisKey] ?? `Category n`)
\*                           : `Category n`
deriveName(processed, index, xAxisKey) ==
    IF Truthy(xAxisKey)
    THEN Text(String(Coalesce(GetBy(processed, xAxisKey), Category(index))))
    ELSE Category(index)

\* processed.value = typeof processed[yAxisKey] === "number"
\*     ? processed[yAxisKey] : processed.value ?? processed.percentage ?? 0
deriveValue(processed, yAxisKey) ==
    IF typeof(GetBy(processed, yAxisKey)) = "number"
    THEN GetBy(processed, yAxisKey)
    ELSE Coalesce(Get(processed, "value"),
                  Coalesce(Get(processed, "percentage"), Num(0)))

\* One step of data.map: row is the caller's object, processed a new one.
\* The result carries both, so that a write through the wrong reference
\* shows in the caller's row.
setName(p, index, xAxisKey) ==
    Bind(deriveName(p, index, xAxisKey), LAMBDA v : Set(p, "name", v))
setValue(p, yAxisKey) ==
    Bind(deriveValue(p, yAxisKey), LAMBDA v : Set(p, "value", v))
setColor(p, index) ==
    Set(p, "color", Text(PaletteAt(COLORS_categorical, index)))

\* the statements of the callback after the copy, on the object processed
deriveFields(processed, index, xAxisKey, yAxisKey) ==
    Bind(Bind(setName(processed, index, xAxisKey),
              LAMBDA p : setValue(p, yAxisKey)),
         LAMBDA p : setColor(p, index))

mapRowInPlace(row, index, xAxisKey, yAxisKey) ==
    Bind(deriveFields(row, index, xAxisKey, yAxisKey),
         LAMBDA p : [item |-> p, processed |-> p])
mapRow(row, index, xAxisKey, yAxisKey) ==
    Bind(copyFields(row),
         LAMBDA p0 : [item |-> row,
                      processed |-> deriveFields(p0, index, xAxisKey,
                                                 yAxisKey)])

\* axes?.x ? utils.cleanKey(axes.x) : null
axisKeyOrNull(ref) == IF Truthy(ref) THEN cleanKey(ref) ELSE Null

\* useProcessedData(data, vizConfig): one [item, processed] pair per row
useProcessedDataSkipFirst(d, vizConfig) ==
    IF NoRows(d) THEN <<>>
    ELSE Bind(<<axisKeyOrNull(AxisX(vizConfig)),
                axisKeyOrNull(AxisY(vizConfig))>>,
              LAMBDA keys : [i \in 1..(Len(d.items) - 1) |->
                                mapRow(d.items[i + 1], i - 1, keys[1],
                                       keys[2])])
useProcessedData(d, vizConfig) ==
    IF NoRows(d) THEN <<>>
    ELSE Bind(<<axisKeyOrNull(AxisX(vizConfig)),
                axisKeyOrNull(AxisY(vizConfig))>>,
              LAMBDA keys : [i \in 1..Len(d.items) |->
                                mapRow(d.items[i], i - 1, keys[1], keys[2])])

\* the rows a normalizer returns, and the caller's rows after the call
Processed(pairs) == [i \in 1..Len(pairs) |-> pairs[i].processed]
CallerRows(d, pairs) ==
    IF pairs = <<>> THEN d ELSE Array([i \in 1..Len(pairs) |-> pairs[i].item])

\* the numeric columns collected last key first
getNumericColumnsReversed(sampleRow, xKey) ==
    Bind(FilterSeq(ObjectKeys(sampleRow),
                   LAMBDA col : /\ Text(col) # xKey
                                /\ col # "color"
                                /\ col # "name"
                                /\ typeof(Get(sampleRow, col)) = "number"),
         LAMBDA cols : [i \in 1..Len(cols) |-> cols[Len(cols) + 1 - i]])

\* utils.getNumericColumns(sampleRow, xKey); sampleRow is data[0]
getNumericColumns(sampleRow, xKey) ==
    FilterSeq(ObjectKeys(sampleRow),
              LAMBDA col : /\ Text(col) # xKey
                           /\ col # "color"
                           /\ col # "name"
                           /\ typeof(Get(sampleRow, col)) = "number")

(***************************************************************************)
(* Row normalizer of the tabbed component (processData)                    *)
(***************************************************************************)
\* const processed = { ...item }, then every number formatted
spreadFormatted(item) ==
    [i \in 1..Len(item) |-> Entry(item[i].k, formatNumber(item[i].v))]

processDataName(item, xAxisKey) ==
    IF Truthy(xAxisKey) /\ GetBy(item, xAxisKey).t # "undefined"
    THEN Text(String(GetBy(item, xAxisKey)))
    ELSE IF Truthy(Get(item, "employeeName")) THEN Get(item, "employeeName")
    ELSE Text("N/A")

processDataRow(item, index, axes) ==
    Bind(<<spreadFormatted(item), aliasKey(axes.x)>>,
         LAMBDA c : Bind(Set(c[1], "name", processDataName(item, c[2])),
                         LAMBDA p : [item |-> item,
                                     processed |->
                                        Set(p, "color",
                                            Text(PaletteAt(COLORS, index)))]))

\* processData(data, vizConfig)
processData(d, vizConfig) ==
    IF d.t # "array" \/ Len(d.items) = 0 THEN <<>>
    ELSE [i \in 1..Len(d.items) |->
            processDataRow(d.items[i], i - 1, vizConfig.axes)]

(***************************************************************************)
(* Row normalizer of the hook-based component (its own useProcessedData)   *)
(***************************************************************************)
COLORS_categorical2 ==
    << "#2563eb", "#059669", "#d97706", "#dc2626", "#7c3aed",
       "#db2777", "#2563eb", "#059669", "#d97706", "#dc2626" >>

\* a || b: a when truthy, else b
Or(a, b) == IF Truthy(a) THEN a ELSE b

\* String(item[xAxisKey] || item.name || item.label || item.id || `Item n`)
useProcessedData2Name(item, index, xAxisKey) ==
    Text(String(Or(GetBy(item, xAxisKey),
                Or(Get(item, "name"),
                Or(Get(item, "label"),
                Or(Get(item, "id"), Text("Item " \o Digits(index + 1))))))))

useProcessedData2Row(item, index, xAxisKey) ==
    Bind(<<spreadFormatted(item),
           useProcessedData2Name(item, index, xAxisKey)>>,
         LAMBDA c : Bind(Set(c[1], "name", c[2]),
                         LAMBDA p : [item |-> item,
                                     processed |->
                                        Set(p, "color",
                                            Text(PaletteAt(COLORS_categorical2,
                                                           index)))]))

useProcessedData2(d, vizConfig) ==
    IF d.t # "array" \/ Len(d.items) = 0 THEN <<>>
    ELSE Bind(axisKeyOrNull(AxisX(vizConfig)),
              LAMBDA xAxisKey : [i \in 1..Len(d.items) |->
                    useProcessedData2Row(d.items[i], i - 1, xAxisKey)])

(***************************************************************************)
(* Arithmetic of the annotations.  Sums and quotients are exact; a number  *)
(* that is not a whole count of thousandths is n/d thousandths in lowest   *)
(* terms and keeps "/d" in s.  NaN and -Infinity are numbers too.          *)
(***************************************************************************)
NaN == [t |-> "number", n |-> 0, s |-> "NaN"]
NegInfinity == [t |-> "number", n |-> -1, s |-> "-Infinity"]
IsNaN(v) == v = NaN

RECURSIVE Gcd(_, _)
Gcd(a, b) == IF b = 0 THEN a ELSE Gcd(b, a % b)

\* n / d for n in thousandths and d > 0
Quot(n, d) ==
    IF n % d = 0 THEN Num(n \div d)
    ELSE Bind(Gcd(Abs(n), d), LAMBDA g :
            [t |-> "number", n |-> n \div g,
             s |-> "/" \o Digits(d \div g)])

IsDigits(s) == s # "" /\ \A i \in 1..Len(s) : CharAt(s, i) \in
                   {"0", "1", "2", "3", "4", "5", "6", "7", "8", "9"}

\* a decimal literal: -?digits(.digits)? with at most three fraction digits
IsNumeral(s) ==
    LET body == IF startsWith(s, "-") THEN Tail(s) ELSE s
        ip == SplitFirst(body, ".")
    IN  /\ IsDigits(ip)
        /\ \/ Len(ip) = Len(body)
           \/ /\ IsDigits(SubSeq(body, Len(ip) + 2, Len(body)))
              /\ Len(body) - Len(ip) - 1 <= 3

\* Number(v)
ToNumber(v) ==
    CASE v.t = "number" -> v
      [] v.t = "null" -> Num(0)
      [] v.t = "undefined" -> NaN
      [] OTHER -> IF trim(v.s) = "" THEN Num(0)
                  ELSE IF IsNumeral(trim(v.s)) THEN Num(ParseNumber(trim(v.s)))
                  ELSE NaN

\* a + b: a string operand makes it a concatenation
Plus(a, b) ==
    IF a.t = "string" \/ b.t = "string" THEN Text(String(a) \o String(b))
    ELSE IF IsNaN(ToNumber(a)) \/ IsNaN(ToNumber(b)) THEN NaN
    ELSE Num(ToNumber(a).n + ToNumber(b).n)

\* a / len for a row count len: 0 / 0 is NaN
Divide(a, len) ==
    Bind(ToNumber(a), LAMBDA x :
        IF IsNaN(x) \/ len = 0 THEN NaN ELSE Quot(x.n, len))

\* Math.max(...vals): NaN when a value is not a number, -Infinity of none
MathMax(vals) ==
    IF Len(vals) = 0 THEN NegInfinity
    ELSE Bind([i \in 1..Len(vals) |-> ToNumber(vals[i])], LAMBDA ns :
            IF \E i \in 1..Len(ns) : IsNaN(ns[i]) THEN NaN
            ELSE Num(CHOOSE m \in {ns[i].n : i \in 1..Len(ns)} :
                        \A i \in 1..Len(ns) : ns[i].n <= m))

\* array.reduce((acc, x) => acc + x, init)
Reduce(vals, init) ==
    LET F[i \in 0..Len(vals)] ==
            IF i = 0 THEN init ELSE Plus(F[i - 1], vals[i])
    IN  F[Len(vals)]

(***************************************************************************)
(* Annotations of the unified engine (renderAnnotations)                   *)
(***************************************************************************)
\* what one spec renders as: a ReferenceLine, a ReferenceDot, or null
Element(el, key, x, y, r, stroke, fill, strokeDasharray, label) ==
    [el |-> el, key |-> key, x |-> x, y |-> y, r |-> r, stroke |-> stroke,
     fill |-> fill, strokeDasharray |-> strokeDasharray, label |-> label]
NoElement ==
    Element("null", "", Undefined, Undefined, Undefined, Undefined,
            Undefined, Undefined, Undefined)

\* const styleProps = anno.style || {}
styleProps(anno) == IF anno.style.t = "object" THEN anno.style ELSE NoStyle

\* data.reduce((acc, d) => acc + (d[yAxisKey] || 0), 0) / data.length || 0
avg(rows, yAxisKey) ==
    Bind([i \in 1..Len(rows) |-> Or(GetBy(rows[i], yAxisKey), Num(0))],
         LAMBDA vals : Or(Divide(Reduce(vals, Num(0)), Len(vals)), Num(0)))

\* the value of the first row in place of the largest
maxValFirst(rows, yAxisKey) ==
    IF Len(rows) = 0 THEN NegInfinity
    ELSE ToNumber(Or(GetBy(rows[1], yAxisKey), Num(0)))

\* Math.max(...data.map((d) => d[yAxisKey] || 0))
maxVal(rows, yAxisKey) ==
    MathMax([i \in 1..Len(rows) |-> Or(GetBy(rows[i], yAxisKey), Num(0))])

isAverage(anno, yAxisKey) ==
    anno.type = Text("line") /\ anno.mode = Text("average") /\ Truthy(yAxisKey)
isTrend(anno) ==
    anno.type = Text("line") /\ anno.mode \in {Text("trend"), Text("regression")}

\* a fixed line taken only from a spec that names a mode
isFixedWithMode(anno) ==
    anno.type = Text("line") /\ typeof(anno.y) = "number"
        /\ anno.mode.t # "undefined"

isFixed(anno) == anno.type = Text("line") /\ typeof(anno.y) = "number"

\* a dot taken with one coordinate only
isDotEither(anno) ==
    anno.type = Text("dot") /\ (anno.x.t # "undefined" \/ anno.y.t # "undefined")

isDot(anno) ==
    anno.type = Text("dot") /\ anno.x.t # "undefined" /\ anno.y.t # "undefined"

\* the variants tried with the fixed line first
renderAnnotationFixedFirst(anno, idx, rows, yAxisKey) ==
    LET key == "anno-" \o Digits(idx)
        style == styleProps(anno)
    IN  IF isFixed(anno)
        THEN Element("ReferenceLine", key, Undefined, anno.y, Undefined,
                     Or(style.stroke, Text("#888")), Undefined,
                     Or(style.strokeDasharray, Text("3,3")), anno.label)
        ELSE IF isAverage(anno, yAxisKey)
        THEN Element("ReferenceLine", key, Undefined, avg(rows, yAxisKey),
                     Undefined, Or(style.stroke, Text("#666")), Undefined,
                     Or(style.strokeDasharray, Text("3 3")),
                     Or(anno.label, Text("Avg")))
        ELSE IF isTrend(anno)
        THEN Element("ReferenceLine", key, Undefined, maxVal(rows, yAxisKey),
                     Undefined, Or(style.stroke, Text("rgba(255,0,0,0.5)")),
                     Undefined, Or(style.strokeDasharray, Text("5,5")),
                     Or(anno.label, Text("Trend/Max")))
        ELSE IF isDot(anno)
        THEN Element("ReferenceDot", key, anno.x, anno.y,
                     Or(style.r, Num(5000)), Or(style.stroke, Text("red")),
                     Or(style.fill, Text("white")), Undefined, anno.label)
        ELSE NoElement

\* the callback of annotations.map for the spec at position idx (from 0)
renderAnnotation(anno, idx, rows, yAxisKey) ==
    LET key == "anno-" \o Digits(idx)
        style == styleProps(anno)
    IN  IF isAverage(anno, yAxisKey)
        THEN Element("ReferenceLine", key, Undefined, avg(rows, yAxisKey),
                     Undefined, Or(style.stroke, Text("#666")), Undefined,
                     Or(style.strokeDasharray, Text("3 3")),
                     Or(anno.label, Text("Avg")))
        ELSE IF isTrend(anno)
        THEN Element("ReferenceLine", key, Undefined, maxVal(rows, yAxisKey),
                     Undefined, Or(style.stroke, Text("rgba(255,0,0,0.5)")),
                     Undefined, Or(style.strokeDasharray, Text("5,5")),
                     Or(anno.label, Text("Trend/Max")))
        ELSE IF isFixed(anno)
        THEN Element("ReferenceLine", key, Undefined, anno.y, Undefined,
                     Or(style.stroke, Text("#888")), Undefined,
                     Or(style.strokeDasharray, Text("3,3")), anno.label)
        ELSE IF isDot(anno)
        THEN Element("ReferenceDot", key, anno.x, anno.y,
                     Or(style.r, Num(5000)), Or(style.stroke, Text("red")),
                     Or(style.fill, Text("white")), Undefined, anno.label)
        ELSE NoElement

NoneRendered == [t |-> "none", items |-> <<>>]
NullRendered == [t |-> "null", items |-> <<>>]

\* the specs mapped last one first
renderAnnotationsReversed(annotations, rows, yAxisKey) ==
    IF annotations.t # "array" \/ Len(annotations.items) = 0 THEN NullRendered
    ELSE Array([i \in 1..Len(annotations.items) |->
                  renderAnnotation(
                      annotations.items[Len(annotations.items) + 1 - i],
                      i - 1, rows, yAxisKey)])

\* the mapping given up at the first spec that matches no variant
renderAnnotationsUntilUnmatched(annotations, rows, yAxisKey) ==
    IF annotations.t # "array" \/ Len(annotations.items) = 0 THEN NullRendered
    ELSE Bind([i \in 1..Len(annotations.items) |->
                  renderAnnotation(annotations.items[i], i - 1, rows,
                                   yAxisKey)],
              LAMBDA els :
                Array([i \in 1..Len(els) |->
                        IF \E j \in 1..i : els[j] = NoElement
                        THEN NoElement ELSE els[i]]))

\* renderAnnotations({annotations, chartType, data, xAxisKey, yAxisKey}):
\* null without a non-empty array of specs, else one element or null per
\* spec, in the order of the specs
renderAnnotations(annotations, rows, yAxisKey) ==
    IF annotations.t # "array" \/ Len(annotations.items) = 0 THEN NullRendered
    ELSE Array([i \in 1..Len(annotations.items) |->
                  renderAnnotation(annotations.items[i], i - 1, rows,
                                   yAxisKey)])

(***************************************************************************)
(* Annotations of AdvancedVisualization (generateAnnotations), the         *)
(* reference lines of the tabbed and the hook-based component, and the     *)
(* average of QueryVisualization                                           *)
(***************************************************************************)
DefaultStyle == Style(Text("#666"), Text("3 3"))
Descriptor(value, label, style) ==
    [type |-> Text("line"), value |-> value, label |-> label, style |-> style]

Thrown == [t |-> "TypeError", items |-> <<>>]

\* values.reduce((a, b) => a + b, 0) / values.length over
\* Number(item[config.axes.y.replace(/\s+DESC\s*$/, '')])
generatedAverage(rows, yKey) ==
    Bind([i \in 1..Len(rows) |->
             ToNumber(Get(rows[i], ReplaceSortSuffix(yKey.s, {"DESC"}, FALSE)))],
         LAMBDA values : Divide(Reduce(values, Num(0)), Len(values)))

\* generateAnnotations(data, config): one descriptor per spec of mode
\* average, in the order of the specs; config.axes.y.replace throws for a
\* y that is no string once a row is mapped
generateAnnotations(rows, config) ==
    IF config.annotations.t # "array" THEN Array(<<>>)
    ELSE Bind(FilterSeq(config.annotations.items,
                        LAMBDA a : a.mode = Text("average")),
              LAMBDA specs :
                IF Len(specs) > 0 /\ Len(rows) > 0 /\ AxisY(config).t # "string"
                THEN Thrown
                ELSE Bind(generatedAverage(rows, AxisY(config)), LAMBDA value :
                        Array([i \in 1..Len(specs) |->
                                 Descriptor(value,
                                            Or(specs[i].label, Text("Average")),
                                            IF specs[i].style.t = "object"
                                            THEN specs[i].style
                                            ELSE DefaultStyle)])))

\* vizConfig.annotations && vizConfig.annotations.map(annotation =>
\*   annotation.type === 'line' && <ReferenceLine y={annotation.value}
\*   stroke={annotation.style.stroke} ... />): reading style.stroke of a line
\* spec without a style throws
referenceLines(annotations) ==
    IF annotations.t # "array" THEN NoneRendered
    ELSE IF \E i \in 1..Len(annotations.items) :
               /\ annotations.items[i].type = Text("line")
               /\ annotations.items[i].style.t # "object"
    THEN Thrown
    ELSE Array([i \in 1..Len(annotations.items) |->
                  LET a == annotations.items[i]
                  IN  IF a.type = Text("line")
                      THEN Element("ReferenceLine", Digits(i - 1), Undefined,
                                   a.value, Undefined, a.style.stroke,
                                   Undefined, a.style.strokeDasharray, a.label)
                      ELSE NoElement])

\* averageValue of QueryVisualization: 0 without rows, else the mean of
\* Number(item.totalSales)
averageValue(d) ==
    IF d.t # "array" \/ Len(d.items) = 0 THEN Num(0)
    ELSE Bind([i \in 1..Len(d.items) |->
                  ToNumber(Get(d.items[i], "totalSales"))],
              LAMBDA values : Divide(Reduce(values, Num(0)), Len(values)))

(***************************************************************************)
(* The components                                                          *)
(***************************************************************************)
Unified == "MultiVisualization (unified engine)"
Tabbed == "MultiVisualization (processData)"
Hooked == "MultiVisualization (hook)"
Advanced == "AdvancedVisualization"
Components == {Unified, Tabbed, Hooked, Advanced}

\* visualizations?.[parseInt(activeTab.split("-")[1], 10)]
currentViz(vizs, tab) ==
    IF vizs.t = "array" /\ tab < Len(vizs.items)
    THEN vizs.items[tab + 1] ELSE UndefinedViz

\* !visualizations?.length
NoVisualizations(vizs) == vizs.t # "array" \/ Len(vizs.items) = 0

NoView == [path |-> "none", xAxisKey |-> Undefined, yAxisKey |-> Undefined,
           series |-> <<>>, columns |-> <<>>, annotations |-> NoneRendered]

\* TableComponent of the unified engine: the visible columns
TableColumns(rows) ==
    FilterSeq(IF Len(rows) = 0 THEN <<>> ELSE ObjectKeys(rows[1]),
              LAMBDA col : /\ ~startsWith(col, "_")
                           /\ ~Includes(<<"color", "name", "value">>, col))

TableComponent(d) ==
    IF d.t # "array" THEN [NoView EXCEPT !.path = "TypeError"]
    ELSE IF Len(d.items) = 0 THEN [NoView EXCEPT !.path = "No data available"]
    ELSE [NoView EXCEPT !.path = "table", !.columns = TableColumns(d.items)]

\* the annotations evaluated over the config's y column
SeriesChartConfigY(path, rows, config) ==
    Bind(cleanKey(AxisX(config)), LAMBDA xAxisKey :
        Bind(getNumericColumns(rows[1], xAxisKey), LAMBDA numericCols :
            Bind(cleanKey(AxisY(config)), LAMBDA yAxisKey :
                [NoView EXCEPT !.path = path, !.xAxisKey = xAxisKey,
                               !.series = numericCols,
                               !.yAxisKey = yAxisKey,
                               !.annotations =
                                   renderAnnotations(config.annotations,
                                                     rows, yAxisKey)])))

\* BarChartComponent and LineChartComponent: the series are the numeric
\* columns of data[0]; annotations are evaluated over the first of them
SeriesChart(path, rows, config) ==
    Bind(cleanKey(AxisX(config)), LAMBDA xAxisKey :
        Bind(getNumericColumns(rows[1], xAxisKey), LAMBDA numericCols :
            Bind(IF Len(numericCols) > 0 THEN Text(numericCols[1]) ELSE Null,
                 LAMBDA yAxisKey :
                    [NoView EXCEPT !.path = path, !.xAxisKey = xAxisKey,
                                   !.series = numericCols,
                                   !.yAxisKey = yAxisKey,
                                   !.annotations =
                                       renderAnnotations(config.annotations,
                                                         rows, yAxisKey)])))

ScatterChartComponent(rows, config) ==
    Bind(<<cleanKey(AxisX(config)), cleanKey(AxisY(config))>>, LAMBDA k :
        IF ~Truthy(k[1]) \/ ~Truthy(k[2])
        THEN [NoView EXCEPT !.path = "Scatter chart requires both axes"]
        ELSE IF \/ typeof(GetBy(rows[1], k[1])) # "number"
                \/ typeof(GetBy(rows[1], k[2])) # "number"
        THEN [NoView EXCEPT !.path = "Scatter chart axes must be numeric"]
        ELSE [NoView EXCEPT !.path = "scatter", !.xAxisKey = k[1],
                            !.yAxisKey = k[2],
                            !.annotations =
                                renderAnnotations(config.annotations, rows,
                                                  k[2])])

\* renderChart(vizConfig) of the unified engine
renderChart(rows, vizConfig) ==
    IF Len(rows) = 0 THEN [NoView EXCEPT !.path = "No data to display"]
    ELSE CASE vizConfig.type = Text("bar") -> SeriesChart("bar", rows, vizConfig)
           [] vizConfig.type = Text("line") -> SeriesChart("line", rows, vizConfig)
           [] vizConfig.type = Text("pie") -> [NoView EXCEPT !.path = "pie"]
           [] vizConfig.type = Text("scatter") ->
                ScatterChartComponent(rows, vizConfig)
           [] OTHER -> TableComponent(Array(rows))

\* One render of the mounted component: the normalizer's [item, processed]
\* pairs for the active tab and what the active tab shows.
RenderUnified(d, vizs, tab) ==
    Bind(useProcessedData(d, IF currentViz(vizs, tab).t = "undefined"
                             THEN EmptyViz ELSE currentViz(vizs, tab)),
         LAMBDA pairs :
            [pairs |-> pairs,
             view |-> IF NoVisualizations(vizs) THEN TableComponent(d)
                      ELSE Bind(Processed(pairs), LAMBDA rows :
                                renderChart(rows, currentViz(vizs, tab)))])

\* renderChart(vizConfig) of the tabbed component: the switch on the type
TabbedPath(type) ==
    IF type \in {Text("bar"), Text("pie"), Text("line"), Text("scatter")}
    THEN type.s ELSE "table"

\* the bar and the line chart of the older components draw the config's
\* line annotations; a throw while rendering takes the component down
LegacyView(path, vizConfig) ==
    IF path \in {"bar", "line"}
    THEN Bind(referenceLines(vizConfig.annotations), LAMBDA lines :
            IF lines = Thrown THEN [NoView EXCEPT !.path = "TypeError"]
            ELSE [NoView EXCEPT !.path = path, !.annotations = lines])
    ELSE [NoView EXCEPT !.path = path]

RenderTabbed(d, vizs, tab) ==
    [pairs |-> processData(d, currentViz(vizs, tab)),
     view |-> LegacyView(TabbedPath(currentViz(vizs, tab).type),
                         currentViz(vizs, tab))]

\* the switch of the hook-based component with a case for scatter
HookedPathWithScatter(type) ==
    IF type \in {Text("bar"), Text("pie"), Text("line"), Text("scatter")}
    THEN type.s ELSE "table"

\* renderChart(vizConfig) of the hook-based component
HookedPath(type) ==
    IF type \in {Text("bar"), Text("pie"), Text("line")}
    THEN type.s ELSE "table"

RenderHooked(d, vizs, tab) ==
    [pairs |-> useProcessedData2(d, currentViz(vizs, tab)),
     view |-> LegacyView(HookedPath(currentViz(vizs, tab).type),
                         currentViz(vizs, tab))]

\* processData of AdvancedVisualization: a row keeps a truthy name of its
\* own, else first and last name are combined, else the raw x reference is
\* looked up, else the row has no name
processDataAdvancedName(item, processed, axes) ==
    IF Truthy(Get(processed, "name")) THEN processed
    ELSE IF Truthy(Get(item, "firstName")) /\ Truthy(Get(item, "lastName"))
    THEN Set(processed, "name",
             Text(String(Get(item, "firstName")) \o " "
                    \o String(Get(item, "lastName"))))
    ELSE IF axes.t = "object" /\ Truthy(axes.x)
    THEN Set(processed, "name", Text(String(GetBy(item, axes.x))))
    ELSE processed

processDataAdvanced(d, config) ==
    IF d.t # "array" \/ Len(d.items) = 0 THEN <<>>
    ELSE [i \in 1..Len(d.items) |->
            Bind(processDataAdvancedName(d.items[i],
                                         spreadFormatted(d.items[i]),
                                         config.axes),
                 LAMBDA p : [item |-> d.items[i],
                             processed |->
                                Set(p, "color",
                                    Text(PaletteAt(COLORS, i - 1)))])]

\* renderChart() of AdvancedVisualization: the switch on the type
AdvancedPath(type) ==
    IF type \in {Text("bar"), Text("pie"), Text("line"), Text("scatter"),
                 Text("table")}
    THEN type.s ELSE "Unsupported visualization type"

\* the header cells of renderTable
AdvancedColumns(rows) ==
    FilterSeq(IF Len(rows) = 0 THEN <<>> ELSE ObjectKeys(rows[1]),
              LAMBDA key : ~startsWith(key, "_"))

\* the four charts read visualization.axes.y and hand it to getAxisKey,
\* the bar and the line chart draw the generated annotations, the table
\* shows the unreserved keys of the first row
AdvancedView(path, rows, generated, config) ==
    IF generated = Thrown THEN [NoView EXCEPT !.path = "TypeError"]
    ELSE IF path \in {"bar", "pie", "line", "scatter"}
    THEN IF \/ config.axes.t # "object"
            \/ Truthy(config.axes.y) /\ config.axes.y.t # "string"
         THEN [NoView EXCEPT !.path = "TypeError"]
         ELSE [NoView EXCEPT
                 !.path = path,
                 !.yAxisKey = getAxisKey(config.axes.y),
                 !.annotations =
                    IF path \in {"bar", "line"}
                    THEN Array([i \in 1..Len(generated.items) |->
                            LET a == generated.items[i]
                            IN  Element("ReferenceLine", Digits(i - 1),
                                        Undefined, a.value, Undefined,
                                        a.style.stroke, Undefined,
                                        a.style.strokeDasharray, a.label)])
                    ELSE NoneRendered]
    ELSE IF path = "table"
    THEN [NoView EXCEPT !.path = path, !.columns = AdvancedColumns(rows)]
    ELSE [NoView EXCEPT !.path = path]

\* AdvancedVisualization takes one config, held as the only one of the list
RenderAdvanced(d, vizs) ==
    Bind(processDataAdvanced(d, vizs.items[1]), LAMBDA pairs :
        [pairs |-> pairs,
         view |-> AdvancedView(AdvancedPath(vizs.items[1].type),
                               Processed(pairs),
                               generateAnnotations(Processed(pairs),
                                                   vizs.items[1]),
                               vizs.items[1])])

Render(c, d, vizs, tab) ==
    CASE c = Unified -> RenderUnified(d, vizs, tab)
      [] c = Tabbed -> RenderTabbed(d, vizs, tab)
      [] c = Hooked -> RenderHooked(d, vizs, tab)
      [] OTHER -> RenderAdvanced(d, vizs)

(***************************************************************************)
(* CSV export of the unified engine (handleExport)                         *)
(***************************************************************************)
RECURSIVE Join(_, _)
Join(parts, sep) ==
    IF Len(parts) = 0 THEN ""
    ELSE IF Len(parts) = 1 THEN parts[1]
    ELSE parts[1] \o sep \o Join(Tail(parts), sep)

\* val.replace(/"/g, '""')
RECURSIVE DoubleQuotes(_)
DoubleQuotes(s) ==
    IF s = "" THEN ""
    ELSE (IF CharAt(s, 1) = "\"" THEN "\"\"" ELSE CharAt(s, 1))
            \o DoubleQuotes(Tail(s))

\* one cell: row[col] ?? "", a string quoted, anything else as it prints
CsvCell(row, col) ==
    LET val == Coalesce(Get(row, col), Text(""))
    IN  IF typeof(val) = "string"
        THEN "\"" \o DoubleQuotes(val.s) \o "\"" ELSE String(val)

\* the keys of the caller's first row with only the reserved ones left out
ExportColumnsKeepDerived(d) ==
    FilterSeq(IF Len(d.items) = 0 THEN <<>> ELSE ObjectKeys(d.items[1]),
              LAMBDA col : ~startsWith(col, "_"))

\* Object.keys(data[0] || {}).filter(...): the columns of the caller's
\* first row
ExportColumns(d) == TableColumns(d.items)

CsvRow(row, columns) ==
    Bind([j \in 1..Len(columns) |-> CsvCell(row, columns[j])],
         LAMBDA cells : Join(cells, ","))

CsvLines(columns, rows) ==
    <<Join(columns, ",")>> \o
    [i \in 1..Len(rows) |-> CsvRow(rows[i], columns)]

NoCsv == [t |-> "none", columns |-> <<>>, lines |-> <<>>, text |-> ""]

\* handleExport: nothing without an active config or without rows
handleExport(d, vizs, tab, rows) ==
    IF currentViz(vizs, tab).t = "undefined" \/ Len(rows) = 0 THEN NoCsv
    ELSE Bind(ExportColumns(d), LAMBDA columns :
            Bind(CsvLines(columns, rows), LAMBDA lines :
                [t |-> "file", columns |-> columns, lines |-> lines,
                 text |-> Join(lines, "\n")]))

(***************************************************************************)
(* CSV export of the older components                                      *)
(***************************************************************************)
ThrownCsv == [t |-> "TypeError", columns |-> <<>>, lines |-> <<>>, text |-> ""]

\* the entries of a row whose key passes Keep, in order
FilterEntries(row, Keep(_)) == FilterSeq(row, LAMBDA e : Keep(e.k))

\* a header from the first row's own keys and every line from the row's
\* own entries; Object.keys(processedData[0]) throws over no rows
LegacyCsv(rows, Keep(_), Cell(_)) ==
    IF Len(rows) = 0 THEN ThrownCsv
    ELSE Bind(FilterSeq(ObjectKeys(rows[1]), Keep), LAMBDA columns :
            Bind(<<Join(columns, ",")>> \o
                 [i \in 1..Len(rows) |->
                    Bind(FilterEntries(rows[i], Keep), LAMBDA es :
                        Join([j \in 1..Len(es) |-> Cell(es[j])], ","))],
                 LAMBDA lines :
                    [t |-> "file", columns |-> columns, lines |-> lines,
                     text |-> Join(lines, "\n")]))

\* handleExport of the tabbed component: the rows are normalized again,
\* only reserved keys are left out, a number is written as it is and
\* anything else between quotes
handleExportTabbed(d, vizs, tab) ==
    IF currentViz(vizs, tab).t = "undefined" THEN NoCsv
    ELSE LegacyCsv(Processed(processData(d, currentViz(vizs, tab))),
                   LAMBDA key : ~startsWith(key, "_"),
                   LAMBDA e : IF typeof(e.v) = "number" THEN String(e.v)
                              ELSE "\"" \o String(e.v) \o "\"")

\* Number.prototype.toFixed(1)
toFixed1(n) ==
    LET a == Abs(n)
        q == a \div 100
        r == a % 100
        c == IF r < 50 THEN q
             ELSE IF r > 50 THEN q + 1
             ELSE IF Binary64Sign(a) < 0 THEN q ELSE q + 1
    IN  (IF n < 0 THEN "-" ELSE "") \o Digits(c \div 10) \o "."
            \o Digits(c % 10)

\* the locales the export may run under
Locales == {"en-US", "de-DE"}

\* Number.prototype.toLocaleString(): digits grouped by three and at most
\* three fraction digits, with the separators of the locale
toLocaleString(n, locale) ==
    LET a == Abs(n)
        ip == a \div 1000
        f == StripZeros(ThreeDigits(a % 1000))
        group == IF locale = "en-US" THEN "," ELSE "."
        point == IF locale = "en-US" THEN "." ELSE ","
    IN  (IF n < 0 THEN "-" ELSE "")
            \o (IF ip < 1000 THEN Digits(ip)
                ELSE Digits(ip \div 1000) \o group \o ThreeDigits(ip % 1000))
            \o (IF f = "" THEN "" ELSE point \o f)

\* key.includes('percentage')
includes(s, part) == Len(SplitFirst(s, part)) < Len(s)

\* utils.formatValue(value, isPercentage) of the hook-based component
formatValue(value, isPercentage, locale) ==
    IF typeof(value) # "number" THEN value
    ELSE IF IsNaN(value) THEN Text(IF isPercentage THEN "NaN%" ELSE "NaN")
    ELSE IF isPercentage THEN Text(toFixed1(value.n) \o "%")
    ELSE Text(toLocaleString(value.n, locale))

\* handleExport of the hook-based component: reserved keys and color are
\* left out, every value goes through formatValue, a string is written
\* between quotes and null or undefined as nothing
handleExportHooked(vizs, tab, rows, locale) ==
    IF currentViz(vizs, tab).t = "undefined" THEN NoCsv
    ELSE LegacyCsv(rows,
                   LAMBDA key : ~startsWith(key, "_") /\ key # "color",
                   LAMBDA e :
                      Bind(formatValue(e.v, includes(e.k, "percentage"),
                                       locale),
                           LAMBDA formatted :
                              IF typeof(formatted) = "string"
                              THEN "\"" \o formatted.s \o "\""
                              ELSE IF Nullish(formatted) THEN ""
                              ELSE String(formatted)))

\* downloadData of AdvancedVisualization: the normalized rows, only
\* reserved keys left out, a number as it is and anything else between
\* quotes
downloadData(rows) ==
    LegacyCsv(rows,
              LAMBDA key : ~startsWith(key, "_"),
              LAMBDA e : IF typeof(e.v) = "number" THEN String(e.v)
                         ELSE "\"" \o String(e.v) \o "\"")

(***************************************************************************)
(* Inputs: the rows and configs a query response can carry                 *)
(***************************************************************************)
Obj2(k1, v1, k2, v2) == <<Entry(k1, v1), Entry(k2, v2)>>

RowPool ==
    << Obj2("employeeName", Text("Ann"), "totalSales", Num(150005)),
       <<Entry("_id", Num(7000)), Entry("region", Text("west")),
         Entry("q1", Num(10000)), Entry("q2", Num(20125))>>,
       <<Entry("name", Text("Bob")), Entry("value", Text("high")),
         Entry("percentage", Num(12345)), Entry("totalSales", Num(8345))>>,
       <<Entry("label", Text("L")), Entry("percentage", Num(40000)),
         Entry("totalSales", Null), Entry("region", Null)>>,
       <<Entry("firstName", Text("Al")), Entry("lastName", Text("Ray")),
         Entry("employeeName", Text("Al \"Ace\" Ray")),
         Entry("totalSales", Num(-2675)), Entry("_rank", Num(1000))>>,
       <<Entry("id", Num(3000)), Entry("employeeName", Num(42000)),
         Entry("totalSales", Text("n/a")), Entry("value", Null),
         Entry("q1", Num(0))>>,
       <<Entry("region", Text("")), Entry("q1", Num(1005)),
         Entry("q2", Num(3000)), Entry("name", Text("Zed")),
         Entry("color", Text("red"))>>,
       Obj2("region", Text("east"), "value", Text("high")) >>

\* annotation specs: the four variants with and without label and style,
\* and shapes that are none of them
AnnoPool ==
    << Anno(Text("line"), Text("average"), Undefined, Undefined, Undefined,
            NoStyle),
       Anno(Text("line"), Text("average"), Undefined, Num(99000), Text("Mean"),
            Style(Text("#00f"), Text("4 4"))),
       Anno(Text("line"), Text("trend"), Undefined, Undefined, Undefined,
            Style(Text("red"), Undefined)),
       Anno(Text("line"), Text("regression"), Undefined, Num(7000), Undefined,
            NoStyle),
       Anno(Text("line"), Undefined, Undefined, Num(15000), Text("Target"),
            NoStyle),
       Anno(Text("dot"), Undefined, Num(5000), Num(12000), Undefined, NoStyle),
       Anno(Text("dot"), Undefined, Num(5000), Undefined, Undefined, NoStyle),
       Anno(Text("band"), Undefined, Undefined, Undefined, Text("Band"),
            NoStyle),
       Anno(Text("dot"), Undefined, Text("west"), Null, Undefined, NoStyle),
       Anno(Text("line"), Undefined, Undefined, Text("15"), Undefined, NoStyle),
       Anno(Undefined, Text("average"), Undefined, Undefined, Undefined,
            NoStyle) >>

VizPool ==
    << Viz(Text("bar"), Axes(Text("employeeName"), Text("totalSales"))),
       Viz(Text("line"), Axes(Text("region ASC"), Text("q1 desc"))),
       Viz(Text("pie"), Axes(Text("region as r"), Text("totalSales DESC"))),
       Viz(Text("table"), NoAxes),
       VizA(Text("scatter"), Axes(Text("q1"), Text("q2")),
            Array(<<AnnoPool[1], AnnoPool[3]>>)),
       Viz(Text("heatmap"), Axes(Undefined, Text("percentage"))),
       VizA(Text("bar"), Axes(Text("region"), Text("q1 DESC")),
            Array(<<AnnoPool[1], AnnoPool[7], AnnoPool[4], AnnoPool[5],
                    AnnoPool[8], AnnoPool[6], AnnoPool[1]>>)),
       VizA(Text("line"), Axes(Text("employeeName"), Text("totalSales")),
            Array(<<AnnoPool[2], AnnoPool[3]>>)) >>

\* the longest row set and the longest config list of the model
MaxRows == 13
MaxViz == 2

\* n consecutive elements of pool, cyclically, from position o
Window(pool, o, n) == [i \in 1..n |-> pool[((o + i - 2) % Len(pool)) + 1]]

Datasets ==
    {NullArray, Array(<<>>)} \cup
    {Array(Window(RowPool, o, n)) : o \in 1..Len(RowPool), n \in 1..MaxRows}

VizLists ==
    {NullArray, Array(<<>>)} \cup
    {Array(Window(VizPool, o, n)) : o \in 1..Len(VizPool), n \in 1..MaxViz}

(***************************************************************************)
(* The component as a state machine                                        *)
(***************************************************************************)
\* ChatInterface as it mounts: no message, nothing loading, no call made
NoShown == [isLoading |-> FALSE, engine |-> <<>>]
NoChat ==
    /\ query = ""
    /\ messages = <<>>
    /\ isLoading = FALSE
    /\ error = Null
    /\ contextId = Null
    /\ calls = <<>>
    /\ shown = NoShown

NoKey == [fn |-> "none", out |-> Undefined, name |-> Undefined]

\* Mounting: the props arrive and the first render runs.  The tabbed and the
\* hook-based component read the active config's fields unguarded, so they
\* are mounted with a non-empty config list; AdvancedVisualization is
\* mounted with its one config.
Init ==
    /\ component \in Components
    /\ visualizations \in VizLists
    /\ component # Unified => ~NoVisualizations(visualizations)
    /\ component = Advanced => Len(visualizations.items) = 1
    /\ activeTab = 0
    /\ csv = NoCsv
    /\ rawKey = Null
    /\ keyOut = NoKey
    /\ NoChat
    /\ \E d \in Datasets :
        \E r \in {Render(component, d, visualizations, 0)} :
            /\ data = CallerRows(d, r.pairs)
            /\ processedData = Processed(r.pairs)
            /\ view = r.view

\* onValueChange of the tabs: setActiveTab, then the render it triggers
SetActiveTab(tab) ==
    /\ view.path # "TypeError"
    /\ tab # activeTab
    /\ activeTab' = tab
    /\ \E r \in {Render(component, data, visualizations, tab)} :
           /\ data' = CallerRows(data, r.pairs)
           /\ processedData' = Processed(r.pairs)
           /\ view' = r.view
    /\ UNCHANGED <<component, visualizations, csv, rawKey, keyOut>>
    /\ UNCHANGED chatVars

\* the Export button
HandleExport ==
    /\ view.path # "TypeError"
    /\ ~NoVisualizations(visualizations)
    /\ \E locale \in Locales :
        \E file \in {CASE component = Unified ->
                            handleExport(data, visualizations, activeTab,
                                         processedData)
                       [] component = Tabbed ->
                            handleExportTabbed(data, visualizations,
                                               activeTab)
                       [] component = Advanced ->
                            downloadData(processedData)
                       [] OTHER ->
                            handleExportHooked(visualizations, activeTab,
                                               processedData, locale)} :
           csv' = IF file.t = "none" THEN csv ELSE file
    /\ UNCHANGED <<component, data, visualizations, activeTab, processedData,
                   view, rawKey, keyOut>>
    /\ UNCHANGED chatVars

Next ==
    \/ \E tab \in 0..(Len(visualizations.items) - 1) : SetActiveTab(tab)
    \/ HandleExport

Spec == Init /\ [][Next]_vars

(***************************************************************************)
(* The key normalizer on its own: a column reference, and the functions    *)
(* that clean it applied to it                                             *)
(***************************************************************************)
KeyLeads == {"", " "}
KeyBases == {"Revenue", "region", "region as r", "region AS r",
             "Revenue as total as t"}
KeySuffixes == {"", " DESC", " desc", " Asc", "  ASC ", "DESC", " ",
                " DESC ASC", "\tdesc", " DESC  "}

RawKeys ==
    {Null, Undefined, Text("")} \cup
    {Text(l \o b \o s) : l \in KeyLeads, b \in KeyBases, s \in KeySuffixes}

\* the rows the harness normalizes with the reference as the x axis
KeyRows ==
    Array(<< <<Entry("Revenue", Num(12500)), Entry("region", Text("west")),
               Entry("employeeName", Text("Ann"))>> >>)

InitKeys ==
    /\ component = Unified
    /\ data = KeyRows
    /\ visualizations = Array(<<>>)
    /\ activeTab = 0
    /\ processedData = <<>>
    /\ view = NoView
    /\ csv = NoCsv
    /\ rawKey \in RawKeys
    /\ keyOut = NoKey
    /\ NoChat

KeyCall(fn, out, pairs) ==
    /\ \E ps \in {pairs} :
           keyOut' = [fn |-> fn, out |-> out,
                      name |-> IF Len(ps) = 0 THEN Undefined
                               ELSE Get(ps[1].processed, "name")]
    /\ UNCHANGED <<component, data, visualizations, activeTab, processedData,
                   view, csv, rawKey>>
    /\ UNCHANGED chatVars

\* utils.cleanKey(rawKey) as the chart components call it
CallCleanKey == KeyCall("cleanKey", cleanKey(rawKey), <<>>)

\* getAxisKey(rawKey)
CallGetAxisKey == KeyCall("getAxisKey", getAxisKey(rawKey), <<>>)

\* useProcessedData with the reference as axes.x
CallUseProcessedData ==
    KeyCall("useProcessedData", axisKeyOrNull(rawKey),
            useProcessedData(data, Viz(Text("bar"), Axes(rawKey, Undefined))))

\* processData with the reference as axes.x
CallProcessData ==
    KeyCall("processData", aliasKey(rawKey),
            processData(data, Viz(Text("bar"), Axes(rawKey, Undefined))))

NextKeys ==
    \/ CallCleanKey
    \/ CallGetAxisKey
    \/ CallUseProcessedData
    \/ CallProcessData

SpecKeys == InitKeys /\ [][NextKeys]_vars

(***************************************************************************)
(* The annotation evaluators on their own: a row set, a y column and a     *)
(* list of specs, and the evaluators applied to them                       *)
(***************************************************************************)
Row1(k, v) == <<Entry(k, v)>>

AnnotationRowSets ==
    { NullArray,
      Array(<<>>),
      Array(<<Row1("y", Num(10000)), Row1("y", Num(20000)),
              Row1("y", Num(30000))>>),
      Array(<<Row1("y", Num(10000)), Row1("y", Text("n/a")),
              Row1("y", Num(30000))>>),
      Array(<<Row1("y", Num(-5000)), Row1("totalSales", Num(3000))>>),
      Array(<<Row1("y", Num(-5000)), Row1("y", Num(-1500))>>),
      Array(<<Row1("y", Text("5")), Row1("y", Num(3000))>>),
      Array(<<Obj2("y", Null, "totalSales", Num(7000)),
              Obj2("y", Num(0), "totalSales", Num(2500))>>),
      Array(<<Obj2("y", Num(10000), "totalSales", Num(1000)),
              Obj2("y", Num(10000), "totalSales", Text("")),
              Obj2("y", Num(11000), "totalSales", Num(4000))>>) }

\* the longest list of specs of the model
MaxAnnos == 2

AnnotationLists ==
    {NoAnnotations} \cup
    UNION { {Array(s) : s \in [1..n -> {AnnoPool[i] : i \in 1..Len(AnnoPool)}]}
            : n \in 0..MaxAnnos }

YKeys == {Text("y"), Text("totalSales DESC"), Null}

InitAnnotations ==
    /\ component = Unified
    /\ data \in AnnotationRowSets
    /\ \E annotations \in AnnotationLists, y \in YKeys :
          /\ rawKey = y
          /\ visualizations =
                Array(<<VizA(Text("bar"), Axes(Text("region"), y),
                             annotations)>>)
    /\ activeTab = 0
    /\ processedData = <<>>
    /\ view = NoView
    /\ csv = NoCsv
    /\ keyOut = NoKey
    /\ NoChat

\* renderAnnotations as ScatterChartComponent calls it: over the rows, with
\* the cleaned y reference as yAxisKey
CallRenderAnnotations ==
    /\ data.t = "array"
    /\ KeyCall("renderAnnotations",
               renderAnnotations(visualizations.items[1].annotations,
                                 data.items, cleanKey(rawKey)), <<>>)

\* generateAnnotations(processedData, visualization)
CallGenerateAnnotations ==
    /\ data.t = "array"
    /\ KeyCall("generateAnnotations",
               generateAnnotations(data.items, visualizations.items[1]), <<>>)

\* the reference lines of the bar chart of the tabbed component
CallReferenceLines ==
    KeyCall("referenceLines",
            referenceLines(visualizations.items[1].annotations), <<>>)

\* averageValue of QueryVisualization over the rows
CallAverageValue ==
    KeyCall("averageValue", Array(<<averageValue(data)>>), <<>>)

NextAnnotations ==
    \/ CallRenderAnnotations
    \/ CallGenerateAnnotations
    \/ CallReferenceLines
    \/ CallAverageValue

SpecAnnotations == InitAnnotations /\ [][NextAnnotations]_vars

(***************************************************************************)
(* ChatInterface: the query box, handleQuery across its awaits, and the    *)
(* messages it renders.  A state update made in an event handler is        *)
(* rendered before the next event; one made after an await is rendered at  *)
(* once or in a later commit.                                              *)
(***************************************************************************)
NoResults == [t |-> "undefined", items |-> <<>>]

Message(type, content, results, visualization) ==
    [type |-> type, content |-> content, results |-> results,
     visualization |-> visualization]

\* { type: 'user', content: queryText }
UserMessage(queryText) == Message("user", Text(queryText), NoResults,
                                  UndefinedViz)

\* { type: 'error', content: err.message }
ErrorMessage(message) == Message("error", Text(message), NoResults,
                                 UndefinedViz)

\* { type: 'assistant', content: data.sql_query, results: data.results,
\*   visualization: data.visualization }
AssistantMessage(body) ==
    Message("assistant", body.sql_query, body.results, body.visualization)

\* what response.json() resolves to, or that it rejects
Body(sql_query, results, visualization, context_id) ==
    [t |-> "object", sql_query |-> sql_query, results |-> results,
     visualization |-> visualization, context_id |-> context_id]
NullBody == [Body(Undefined, NoResults, UndefinedViz, Undefined)
                EXCEPT !.t = "null"]
InvalidBody == [Body(Undefined, NoResults, UndefinedViz, Undefined)
                   EXCEPT !.t = "invalid"]

\* every response is taken for OK
responseOkAny(status) == TRUE

\* response.ok
responseOk(status) == status \in 200..299

\* a submit that does not look at isLoading
handleSubmitAlways(text, loading) == trim(text) # ""

\* handleSubmit: query.trim() && !isLoading
handleSubmit(text, loading) == trim(text) # "" /\ ~loading

\* the Button is disabled={isLoading || !query.trim()}
disabled(text, loading) == loading \/ trim(text) = ""

\* the catch block appending the error message alone
failedOnlyError(prev, queryText, message) ==
    prev \o <<ErrorMessage(message)>>

\* setMessages of the catch block
failed(prev, queryText, message) ==
    prev \o <<UserMessage(queryText), ErrorMessage(message)>>

\* setMessages of the try block
answered(prev, queryText, body) ==
    prev \o <<UserMessage(queryText), AssistantMessage(body)>>

\* the QueryVisualization elements of a render: one for every message that
\* is neither a user nor an error message and has results and a
\* visualization
RECURSIVE Engine(_, _)
Engine(msgs, i) ==
    IF i > Len(msgs) THEN <<>>
    ELSE (IF /\ msgs[i].type \notin {"user", "error"}
             /\ msgs[i].results.t \notin {"null", "undefined"}
             /\ msgs[i].visualization.t \notin {"null", "undefined"}
          THEN <<[message |-> i, data |-> msgs[i].results,
                  visualization |-> msgs[i].visualization]>>
          ELSE <<>>) \o Engine(msgs, i + 1)

\* one render of ChatInterface
Rendered(loading, msgs) == [isLoading |-> loading, engine |-> Engine(msgs, 1)]

\* the texts typed into the box, the responses of the server
Queries == {"", "  ", "top sales", " by region"}
Statuses == {200, 404, 500}
FetchErrors == {"Failed to fetch"}
Bodies ==
    { InvalidBody, NullBody,
      Body(Text("SELECT 1"), Array(<<RowPool[1]>>), VizPool[1], Text("ctx-1")),
      Body(Text("SELECT 2"), Array(<<>>), VizPool[3], Undefined),
      Body(Text("SELECT 3"), NullArray, VizPool[1], Text("ctx-2")),
      Body(Text("SELECT 4"), Array(<<RowPool[5]>>), UndefinedViz, Undefined),
      Body(Undefined, NoResults, UndefinedViz, Null) }

\* the number of queries of a session
MaxQueries == 3

InitChat ==
    /\ component = Unified
    /\ data = NullArray
    /\ visualizations = Array(<<>>)
    /\ activeTab = 0
    /\ processedData = <<>>
    /\ view = NoView
    /\ csv = NoCsv
    /\ rawKey = Null
    /\ keyOut = NoKey
    /\ NoChat

\* onChange of the textarea: setQuery(e.target.value)
SetQuery(text) ==
    /\ text # query
    /\ query' = text
    /\ UNCHANGED <<messages, isLoading, error, contextId, calls, shown>>
    /\ UNCHANGED vizVars

\* A submit, by the button (which takes no click while disabled) or by the
\* Enter key: handleSubmit, and when it passes handleQuery up to its fetch:
\* setIsLoading(true), setError(null), the request sent with the context
\* id if there is one, then setQuery('') and the render of the event.
Submit(key) ==
    /\ Len(calls) < MaxQueries
    /\ key = "button" => ~disabled(query, shown.isLoading)
    /\ IF handleSubmit(query, shown.isLoading)
       THEN /\ isLoading' = TRUE
            /\ error' = Null
            /\ calls' = Append(calls,
                               [queryText |-> query,
                                context_id |-> IF Truthy(contextId)
                                               THEN contextId ELSE Undefined,
                                pc |-> "fetch", status |-> 0, at |-> 0])
            /\ query' = ""
            /\ shown' = Rendered(TRUE, messages)
            /\ UNCHANGED <<messages, contextId>>
       ELSE UNCHANGED chatVars
    /\ UNCHANGED vizVars

\* the catch and the finally block of call i
Catch(i, status, message) ==
    /\ error' = Text(message)
    /\ messages' = failed(messages, calls[i].queryText, message)
    /\ isLoading' = FALSE
    /\ calls' = [calls EXCEPT ![i].pc = "done", ![i].status = status,
                              ![i].at = Len(messages)]
    /\ UNCHANGED <<query, contextId>>

\* the render after the updates of a continuation: at once, or left to a
\* later commit
Commit ==
    \E now \in BOOLEAN :
        shown' = IF now THEN Rendered(isLoading', messages') ELSE shown

\* the fetch of call i rejects
FetchRejects(i) ==
    /\ calls[i].pc = "fetch"
    /\ \E message \in FetchErrors : Catch(i, 0, message)
    /\ Commit
    /\ UNCHANGED vizVars

\* the fetch of call i resolves: a response that is not OK throws, an OK
\* one is read as JSON
FetchResolves(i, status) ==
    /\ calls[i].pc = "fetch"
    /\ IF ~responseOk(status)
       THEN Catch(i, status, "Failed to fetch response") /\ Commit
       ELSE /\ calls' = [calls EXCEPT ![i].pc = "json", ![i].status = status]
            /\ UNCHANGED <<query, messages, isLoading, error, contextId,
                           shown>>
    /\ UNCHANGED vizVars

\* response.json() of call i settles: it rejects for a body that is no
\* JSON, data.context_id throws for null, else the context id is kept and
\* the two messages are appended; finally setIsLoading(false)
JsonSettles(i, body) ==
    /\ calls[i].pc = "json"
    /\ CASE body.t = "invalid" ->
              Catch(i, calls[i].status, "Unexpected end of JSON input")
         [] body.t = "null" ->
              Catch(i, calls[i].status,
                    "Cannot read properties of null (reading 'context_id')")
         [] OTHER ->
              /\ contextId' = IF Truthy(body.context_id)
                              THEN body.context_id ELSE contextId
              /\ messages' = answered(messages, calls[i].queryText, body)
              /\ isLoading' = FALSE
              /\ calls' = [calls EXCEPT ![i].pc = "done",
                                        ![i].at = Len(messages)]
              /\ UNCHANGED <<query, error>>
    /\ Commit
    /\ UNCHANGED vizVars

\* a commit of the updates no render has shown yet
Flush ==
    /\ shown # Rendered(isLoading, messages)
    /\ shown' = Rendered(isLoading, messages)
    /\ UNCHANGED <<query, messages, isLoading, error, contextId, calls>>
    /\ UNCHANGED vizVars

Settle(i) ==
    \/ FetchRejects(i)
    \/ \E status \in Statuses : FetchResolves(i, status)
    \/ \E body \in Bodies : JsonSettles(i, body)

NextChat ==
    \/ \E text \in Queries : SetQuery(text)
    \/ \E key \in {"button", "Enter"} : Submit(key)
    \/ \E i \in 1..Len(calls) : Settle(i)
    \/ Flush

SpecChat == InitChat /\ [][NextChat]_vars

\* every fetch and every response.json() settles, and a pending render is
\* committed
SpecChatFair ==
    /\ SpecChat
    /\ \A i \in 1..MaxQueries : WF_vars(i <= Len(calls) /\ Settle(i))
    /\ WF_vars(Flush)

(***************************************************************************)
(* Properties of the row normalizer and the projections                    *)
(***************************************************************************)
InputRows == IF data.t = "array" THEN data.items ELSE <<>>
ActiveViz == currentViz(visualizations, activeTab)
DerivedKeys == {"name", "value", "color"}
Palette(c) ==
    CASE c = Unified -> COLORS_categorical
      [] c \in {Tabbed, Advanced} -> COLORS
      [] OTHER -> COLORS_categorical2

\* e is a field of an input row that the normalizer carries over as it is
\* (a number to within the rounding to 2 decimals)
CarriedOver(e, out) ==
    /\ Has(out, e.k)
    /\ typeof(e.v) # "number" => Get(out, e.k) = e.v
    /\ typeof(e.v) = "number" =>
          /\ typeof(Get(out, e.k)) = "number"
          /\ Abs(Get(out, e.k).n - e.v.n) <= 5

\* C1: the normalized rows are as many as the input rows and row i comes
\* from input row i (its own fields carried over, in the same position);
\* an empty or absent row set gives an empty sequence.
C1_SameLengthSameOrder ==
    /\ Len(processedData) = Len(InputRows)
    /\ data.t # "array" => processedData = <<>>
    /\ \A i \in 1..Len(processedData) :
          \A j \in 1..Len(InputRows[i]) :
              LET e == InputRows[i][j]
              IN  (~startsWith(e.k, "_") /\ e.k \notin DerivedKeys)
                      => CarriedOver(e, processedData[i])

C1_Witness ==
    /\ component = Unified
    /\ Len(InputRows) >= 3
    /\ Len(processedData) = Len(InputRows)
    /\ InputRows[1] # InputRows[2]

\* C2: the color of normalized row i (counted from 0) is
\* palette[i mod paletteLength], whatever the row holds.
C2_ColorByIndex ==
    \A i \in 1..Len(processedData) :
        Get(processedData[i], "color") =
            Text(Palette(component)[((i - 1) % Len(Palette(component))) + 1])

\* a row set long enough for the palette to wrap, with a row that brings a
\* color field of its own
C2_Witness ==
    /\ component = Unified
    /\ Len(processedData) > Len(COLORS_categorical)
    /\ Get(processedData[Len(COLORS_categorical) + 1], "color")
          = Text(COLORS_categorical[1])
    /\ \E i \in 1..Len(InputRows) : Get(InputRows[i], "color") = Text("red")

\* C3: the row {employeeName:"Ann", totalSales:150.005} under the config
\* {type:"bar", axes:{x:"employeeName", y:"totalSales"}} is normalized to
\* {employeeName:"Ann", totalSales:150.01, name:"Ann", value:150.01,
\*  color:palette[0]}.
C3_Scenario ==
    ( /\ component = Unified
      /\ data = Array(<<Obj2("employeeName", Text("Ann"),
                             "totalSales", Num(150005))>>)
      /\ ActiveViz = Viz(Text("bar"),
                         Axes(Text("employeeName"), Text("totalSales"))) )
    => processedData =
         << <<Entry("employeeName", Text("Ann")),
              Entry("totalSales", Num(150010)),
              Entry("name", Text("Ann")),
              Entry("value", Num(150010)),
              Entry("color", Text(COLORS_categorical[1]))>> >>

\* the conventional label of a row: first and last name combined, else
\* employeeName, else name, label or id
HasLabel(row) ==
    \/ Truthy(Get(row, "firstName")) /\ Truthy(Get(row, "lastName"))
    \/ \E k \in {"employeeName", "name", "label", "id"} : Truthy(Get(row, k))
LabelOf(row) ==
    IF Truthy(Get(row, "firstName")) /\ Truthy(Get(row, "lastName"))
    THEN Text(Get(row, "firstName").s \o " " \o Get(row, "lastName").s)
    ELSE Text(String(Or(Get(row, "employeeName"),
                     Or(Get(row, "name"),
                     Or(Get(row, "label"), Get(row, "id"))))))

\* the x-axis column the active config names, cleaned of its sort suffix
ActiveXKey == axisKeyOrNull(AxisX(ActiveViz))

\* C4 as claimed: the name is a string, the x-axis value if present, else
\* a conventional label field, else a placeholder.
C4_LabelChain ==
    \A i \in 1..Len(processedData) :
        LET row == InputRows[i]
            name == Get(processedData[i], "name")
            x == IF Truthy(ActiveXKey) THEN GetBy(row, ActiveXKey)
                 ELSE Undefined
        IN  /\ name.t = "string"
            /\ IF ~Nullish(x) THEN name = Text(String(formatNumber(x)))
               ELSE IF HasLabel(row) THEN name = LabelOf(row)
               ELSE name \in {Category(i - 1), Text("N/A")}

\* C4 as the code has it.  The unified engine: always a string, the rounded
\* x-axis value when the column is configured, not reserved-prefixed, and
\* its value neither null nor missing, else "Category {index}", label
\* fields never consulted.  processData: the x-axis value when defined,
\* else the row's truthy employeeName as it is, else "N/A".  The hook
\* variant: the first truthy of x-axis value, name, label, id, else
\* "Item {index}".  AdvancedVisualization: the row's own truthy name, else
\* first and last name combined, else the value under the raw x reference,
\* else the name is left as the row had it.
C4_NameByVariant ==
    \A i \in 1..Len(processedData) :
        LET row == InputRows[i]
            name == Get(processedData[i], "name")
        IN  CASE component = Unified ->
                    LET x == IF Truthy(ActiveXKey)
                                  /\ ~startsWith(ActiveXKey.s, "_")
                             THEN GetBy(row, ActiveXKey) ELSE Undefined
                    IN  /\ name.t = "string"
                        /\ ~Nullish(x) => name = Text(String(formatNumber(x)))
                        /\ Nullish(x) => name = Category(i - 1)
              [] component = Tabbed ->
                    LET x == IF Truthy(aliasKey(AxisX(ActiveViz)))
                             THEN GetBy(row, aliasKey(AxisX(ActiveViz)))
                             ELSE Undefined
                    IN  /\ x.t # "undefined" => name = Text(String(x))
                        /\ (x.t = "undefined"
                              /\ Truthy(Get(row, "employeeName")))
                             => name = Get(row, "employeeName")
                        /\ (x.t = "undefined"
                              /\ ~Truthy(Get(row, "employeeName")))
                             => name = Text("N/A")
              [] component = Advanced ->
                    LET full == /\ Truthy(Get(row, "firstName"))
                                /\ Truthy(Get(row, "lastName"))
                    IN  /\ Truthy(Get(row, "name")) => name = Get(row, "name")
                        /\ (~Truthy(Get(row, "name")) /\ full) =>
                              name = Text(String(Get(row, "firstName"))
                                            \o " "
                                            \o String(Get(row, "lastName")))
                        /\ (~Truthy(Get(row, "name")) /\ ~full
                              /\ Truthy(AxisX(ActiveViz))) =>
                              name = Text(String(GetBy(row, AxisX(ActiveViz))))
                        /\ (~Truthy(Get(row, "name")) /\ ~full
                              /\ ~Truthy(AxisX(ActiveViz))) =>
                              name = Get(row, "name")
              [] OTHER ->
                    LET x == GetBy(row, ActiveXKey)
                        c == <<x, Get(row, "name"), Get(row, "label"),
                               Get(row, "id")>>
                    IN  /\ name.t = "string"
                        /\ \A k \in 1..4 :
                             (Truthy(c[k]) /\ \A m \in 1..(k - 1) : ~Truthy(c[m]))
                                => name = Text(String(c[k]))
                        /\ (\A k \in 1..4 : ~Truthy(c[k]))
                                => name = Text("Item " \o Digits(i))

\* a row with an employeeName and no configured x axis is named by the
\* placeholder in the unified engine
C4_Witness ==
    /\ component = Unified
    /\ ~Truthy(ActiveXKey)
    /\ \E i \in 1..Len(processedData) :
          /\ Truthy(Get(InputRows[i], "employeeName"))
          /\ Get(processedData[i], "name") = Category(i - 1)

\* C5: the derived value of every normalized row is a number: the y-axis
\* column value when numeric, else the row's value field, else its
\* percentage field, else 0.
C5_ValueIsNumber ==
    component = Unified =>
        \A i \in 1..Len(processedData) :
            LET out == processedData[i]
                value == Get(out, "value")
                y == GetBy(InputRows[i], axisKeyOrNull(AxisY(ActiveViz)))
            IN  /\ typeof(value) = "number"
                /\ typeof(y) = "number" => Abs(value.n - y.n) <= 5

\* the part of s after the first occurrence of sep ("" when there is none)
AfterFirst(s, sep) ==
    SubSeq(s, Len(SplitFirst(s, sep)) + Len(sep) + 1, Len(s))

RECURSIVE SplitAll(_, _)
SplitAll(s, sep) ==
    IF Len(SplitFirst(s, sep)) = Len(s) THEN <<s>>
    ELSE <<SplitFirst(s, sep)>> \o SplitAll(AfterFirst(s, sep), sep)

NoReserved(keys) == \A i \in 1..Len(keys) : ~startsWith(keys[i], "_")

\* C6: no field whose key starts with "_" is in a normalized row, in the
\* table columns or in the CSV export of the unified engine.
C6_NoReservedField ==
    component = Unified =>
        /\ \A i \in 1..Len(processedData) :
              NoReserved(ObjectKeys(processedData[i]))
        /\ NoReserved(view.columns)
        /\ NoReserved(csv.columns)
        /\ csv.t = "file" => NoReserved(SplitAll(csv.lines[1], ","))

\* the first input row has a reserved field, the table is shown and the CSV
\* has been exported
C6_Witness ==
    /\ component = Unified
    /\ Len(InputRows) > 0
    /\ ~NoReserved(ObjectKeys(InputRows[1]))
    /\ view.path = "table"
    /\ Len(view.columns) > 0
    /\ csv.t = "file"

\* C7: the caller's rows and configs are the ones handed in at mount and
\* no render, tab switch or export changes them.
C7_InputsUntouched ==
    /\ data \in Datasets /\ visualizations \in VizLists
    /\ [][data' = data /\ visualizations' = visualizations]_vars

\* after a tab switch and an export over a non-empty row set
C7_Witness ==
    /\ activeTab = 1
    /\ csv.t = "file"
    /\ Len(InputRows) > 1
    /\ Len(processedData) = Len(InputRows)

\* the numeric columns of a row other than the category axis and the
\* derived keys
NumericSeries(row, xKey) ==
    FilterSeq(ObjectKeys(row),
              LAMBDA col : /\ typeof(Get(row, col)) = "number"
                           /\ Text(col) # xKey
                           /\ col \notin DerivedKeys)

\* C10: the series detected for the bar and line charts are exactly the
\* numeric columns of the sample row other than the category axis key and
\* the derived keys color, name and value.
C10_SeriesExcludeDerived ==
    (component = Unified /\ view.path \in {"bar", "line"}) =>
        view.series = NumericSeries(processedData[1], view.xAxisKey)

(***************************************************************************)
(* Properties of the key normalizer                                        *)
(***************************************************************************)
\* what is left of a suffix once one trailing sort token, the whitespace
\* before it and the surrounding whitespace are taken away
SortResidue(s) ==
    CASE s = "DESC" -> "DESC"
      [] s = " DESC ASC" -> " DESC"
      [] OTHER -> ""

\* what getAxisKey leaves of a suffix
AxisKeyResidue(s) == IF s \in {" DESC", " DESC  "} THEN "" ELSE s

AliasRefs ==
    { [ref |-> "region as r", expr |-> "region", name |-> "west"],
      [ref |-> "Revenue as total as t", expr |-> "Revenue", name |-> "12.5"] }

C11_SeriesInInsertionOrder ==
    /\ getNumericColumns(<<Entry("region", Text("west")),
                           Entry("q1", Num(10000)), Entry("q2", Num(20000)),
                           Entry("color", Text("#fff")),
                           Entry("name", Text("west"))>>, Text("region"))
          = <<"q1", "q2">>
    /\ (component = Unified /\ view.path \in {"bar", "line"}) =>
          /\ \A i \in 1..Len(view.series) :
                Has(processedData[1], view.series[i])
          /\ \A i, j \in 1..Len(view.series) :
                i < j => IndexOfKey(processedData[1], view.series[i])
                           < IndexOfKey(processedData[1], view.series[j])

\* a chart whose series are not in alphabetical order: id, employeeName,
\* value, q1 as the sample row has them
C11_Witness ==
    /\ component = Unified
    /\ view.path \in {"bar", "line"}
    /\ view.series = <<"id", "employeeName", "value", "q1">>

(***************************************************************************)
(* Properties of the annotation evaluators                                 *)
(***************************************************************************)
AnnotationSpecs ==
    IF visualizations.t = "array" /\ Len(visualizations.items) > 0
          /\ visualizations.items[1].annotations.t = "array"
    THEN visualizations.items[1].annotations.items ELSE <<>>
AnnotationYKey == cleanKey(rawKey)
AverageSpecs ==
    FilterSeq(AnnotationSpecs, LAMBDA a : a.mode = Text("average"))

\* the y value of a row as the claims count it: the number, else 0
NumberOrZero(row, key) ==
    IF typeof(GetBy(row, key)) = "number" THEN GetBy(row, key).n ELSE 0
SumOrZero(rows, key) ==
    LET F[i \in 0..Len(rows)] ==
            IF i = 0 THEN 0 ELSE F[i - 1] + NumberOrZero(rows[i], key)
    IN  F[Len(rows)]

\* C12: the value of an average line is the sum of rows[i][yKey], a
\* missing or non-numeric value counting as 0, divided by the number of
\* rows.
C12_AverageIsMean ==
    (data.t = "array" /\ Len(data.items) > 0 /\ Truthy(AnnotationYKey)) =>
        LET mean == Quot(SumOrZero(data.items, AnnotationYKey),
                         Len(data.items))
        IN  /\ keyOut.fn = "renderAnnotations" =>
                  \A i \in 1..Len(AnnotationSpecs) :
                      isAverage(AnnotationSpecs[i], AnnotationYKey)
                          => keyOut.out.items[i].y = mean
            /\ keyOut.fn = "generateAnnotations" =>
                  \A i \in 1..Len(keyOut.out.items) :
                      keyOut.out.items[i].value = mean

\* C13: an average over an empty row set is 0, never NaN, never an error.
C13_EmptyAverageIsZero ==
    NoRows(data) =>
        /\ keyOut.fn = "renderAnnotations" =>
              \A i \in 1..Len(AnnotationSpecs) :
                  isAverage(AnnotationSpecs[i], AnnotationYKey)
                      => keyOut.out.items[i].y = Num(0)
        /\ keyOut.fn = "generateAnnotations" =>
              /\ keyOut.out.t = "array"
              /\ Len(keyOut.out.items) = Len(AverageSpecs)
              /\ \A i \in 1..Len(keyOut.out.items) :
                    keyOut.out.items[i].value = Num(0)
        /\ keyOut.fn = "averageValue" => keyOut.out.items = <<Num(0)>>

\* the numbers observed in the y column of the rows
Observed(rows, key) ==
    {GetBy(rows[i], key).n :
        i \in {j \in 1..Len(rows) : typeof(GetBy(rows[j], key)) = "number"}}

Counted(row, key) ==
    IF Truthy(GetBy(row, key)) THEN ToNumber(GetBy(row, key)) ELSE Num(0)

C15_FixedLineAtY ==
    keyOut.fn = "renderAnnotations" =>
        \A i \in 1..Len(AnnotationSpecs) :
            ( /\ AnnotationSpecs[i].type = Text("line")
              /\ typeof(AnnotationSpecs[i].y) = "number"
              /\ AnnotationSpecs[i].mode \notin
                    {Text("average"), Text("trend"), Text("regression")} )
            => /\ keyOut.out.items[i].el = "ReferenceLine"
               /\ keyOut.out.items[i].y = AnnotationSpecs[i].y

C15_Witness ==
    /\ keyOut.fn = "renderAnnotations"
    /\ AnnotationSpecs = <<AnnoPool[5]>>
    /\ rawKey = Null
    /\ Len(data.items) = 3
    /\ keyOut.out.items[1].el = "ReferenceLine"
    /\ keyOut.out.items[1].y = Num(15000)

\* the elements that are drawn: the non-null ones
Emitted(out) == FilterSeq(out.items, LAMBDA e : e # NoElement)

\* C16: a dot spec gives a marker at its literal (x, y) only when both are
\* given; a dot spec without one of them gives nothing and raises nothing,
\* so the list [{type:"dot", x:5}] gives no result.
C16_DotNeedsBoth ==
    keyOut.fn = "renderAnnotations" =>
        /\ keyOut.out.t \in {"array", "null"}
        /\ \A i \in 1..Len(AnnotationSpecs) :
              AnnotationSpecs[i].type = Text("dot") =>
                  IF AnnotationSpecs[i].x.t # "undefined"
                        /\ AnnotationSpecs[i].y.t # "undefined"
                  THEN /\ keyOut.out.items[i].el = "ReferenceDot"
                       /\ keyOut.out.items[i].x = AnnotationSpecs[i].x
                       /\ keyOut.out.items[i].y = AnnotationSpecs[i].y
                  ELSE keyOut.out.items[i] = NoElement
        /\ AnnotationSpecs = <<AnnoPool[7]>> => Emitted(keyOut.out) = <<>>

C16_Witness ==
    /\ keyOut.fn = "renderAnnotations"
    /\ AnnotationSpecs = <<AnnoPool[7]>>
    /\ Len(data.items) > 0
    /\ keyOut.out.t = "array"
    /\ Emitted(keyOut.out) = <<>>

\* the element el is what the spec a gives, if it gives anything
FromSpec(a, el) ==
    \/ el = NoElement
    \/ /\ el.el = "ReferenceDot" /\ a.type = Text("dot")
       /\ el.x = a.x /\ el.y = a.y
    \/ /\ el.el = "ReferenceLine" /\ a.type = Text("line")
       /\ el.label \in {a.label, Text("Avg"), Text("Trend/Max")}
       /\ a.label.t = "string" => el.label = a.label
       /\ (typeof(a.y) = "number" /\ a.mode.t = "undefined") => el.y = a.y

\* C17: the results come in the order of the specs, none moved and none
\* merged: result i is the one of spec i, and two equal specs give two
\* results.
C17_ResultsInSpecOrder ==
    /\ (keyOut.fn = "renderAnnotations" /\ keyOut.out.t = "array") =>
          /\ Len(keyOut.out.items) = Len(AnnotationSpecs)
          /\ \A i \in 1..Len(AnnotationSpecs) :
                /\ FromSpec(AnnotationSpecs[i], keyOut.out.items[i])
                /\ keyOut.out.items[i] # NoElement
                      => keyOut.out.items[i].key = "anno-" \o Digits(i - 1)
          /\ \A i, j \in 1..Len(AnnotationSpecs) :
                AnnotationSpecs[i] = AnnotationSpecs[j] =>
                    (keyOut.out.items[i] = NoElement
                        <=> keyOut.out.items[j] = NoElement)
    /\ (keyOut.fn = "generateAnnotations" /\ keyOut.out.t = "array") =>
          /\ Len(keyOut.out.items) = Len(AverageSpecs)
          /\ \A i \in 1..Len(AverageSpecs) :
                keyOut.out.items[i].label \in
                    {AverageSpecs[i].label, Text("Average")}
                /\ (AverageSpecs[i].label.t = "string"
                      => keyOut.out.items[i].label = AverageSpecs[i].label)

\* a dot before a fixed line, and the same fixed line twice
C17_Witness ==
    /\ keyOut.fn = "renderAnnotations"
    /\ AnnotationSpecs = <<AnnoPool[6], AnnoPool[5]>>
    /\ keyOut.out.items[1].el = "ReferenceDot"
    /\ keyOut.out.items[2].el = "ReferenceLine"

\* a spec of one of the recognized variants
Recognized(a, yKey) ==
    \/ a.type = Text("line") /\ a.mode = Text("average") /\ Truthy(yKey)
    \/ a.type = Text("line") /\ a.mode \in {Text("trend"), Text("regression")}
    \/ a.type = Text("line") /\ typeof(a.y) = "number"
    \/ a.type = Text("dot") /\ a.x.t # "undefined" /\ a.y.t # "undefined"

C19_AverageDefaults ==
    \A i \in 1..Len(AnnotationSpecs) :
        ( /\ AnnotationSpecs[i].type = Text("line")
          /\ AnnotationSpecs[i].mode = Text("average")
          /\ AnnotationSpecs[i].label.t = "undefined"
          /\ AnnotationSpecs[i].style.t = "undefined"
          /\ rawKey.t = "string" ) =>
        /\ keyOut.fn = "renderAnnotations" =>
              /\ keyOut.out.items[i].el = "ReferenceLine"
              /\ keyOut.out.items[i].label = Text("Avg")
              /\ keyOut.out.items[i].stroke = Text("#666")
              /\ keyOut.out.items[i].strokeDasharray = Text("3 3")
        /\ keyOut.fn = "generateAnnotations" =>
              /\ keyOut.out.t = "array"
              /\ \E j \in 1..Len(keyOut.out.items) :
                    /\ keyOut.out.items[j].label = Text("Average")
                    /\ keyOut.out.items[j].style = DefaultStyle
        /\ keyOut.fn = "referenceLines" =>
              /\ keyOut.out.t = "array"
              /\ keyOut.out.items[i].el = "ReferenceLine"

(***************************************************************************)
(* Properties of the CSV export                                            *)
(***************************************************************************)
\* the keys of the first normalized row that are neither reserved nor in
\* the set left out
ColumnsWithout(leftOut) ==
    FilterSeq(IF Len(processedData) = 0 THEN <<>>
              ELSE ObjectKeys(processedData[1]),
              LAMBDA k : ~startsWith(k, "_") /\ k \notin leftOut)

\* the header line is the column names between commas, none quoted
PlainHeader ==
    /\ SplitAll(csv.lines[1], ",") =
          (IF Len(csv.columns) = 0 THEN <<"">> ELSE csv.columns)
    /\ \A i \in 1..Len(csv.lines[1]) : CharAt(csv.lines[1], i) # "\""

\* C20 as claimed: the columns of the CSV are the keys of the first row
\* less the reserved and the derived display-only keys, and the first
\* line is the column names joined by commas, unquoted.
C20_ColumnsMinusDerived ==
    (component \in {Unified, Hooked} /\ csv.t = "file") =>
        /\ csv.columns = ColumnsWithout(DerivedKeys)
        /\ PlainHeader

\* C20 as the code has it: the unified engine leaves out color, name and
\* value (derived or the caller's own), the hook-based component only
\* color, so that its derived name is a column, the tabbed component and
\* AdvancedVisualization none of them; the header is the unquoted column
\* names in all of them.
C20_ColumnsByVariant ==
    csv.t = "file" =>
        /\ component = Unified => csv.columns = ColumnsWithout(DerivedKeys)
        /\ component = Hooked => csv.columns = ColumnsWithout({"color"})
        /\ component \in {Tabbed, Advanced} =>
              csv.columns = ColumnsWithout({})
        /\ PlainHeader

\* an export of the unified engine whose first row brought a name and a
\* value of its own
C20_Witness ==
    /\ component = Unified
    /\ csv.t = "file"
    /\ Has(InputRows[1], "name") /\ Has(InputRows[1], "value")
    /\ csv.columns = <<"percentage", "totalSales">>
    /\ csv.lines[1] = "percentage,totalSales"

\* one line of CSV read back: fields end at the commas outside quotes, a
\* quoted field loses its quotes and "" inside it stands for one quote
RECURSIVE ParseCsvLine(_, _, _, _)
ParseCsvLine(s, i, quoted, field) ==
    IF i > Len(s) THEN <<field>>
    ELSE IF quoted
    THEN IF CharAt(s, i) # "\""
         THEN ParseCsvLine(s, i + 1, TRUE, field \o CharAt(s, i))
         ELSE IF i < Len(s) /\ CharAt(s, i + 1) = "\""
         THEN ParseCsvLine(s, i + 2, TRUE, field \o "\"")
         ELSE ParseCsvLine(s, i + 1, FALSE, field)
    ELSE IF CharAt(s, i) = ","
         THEN <<field>> \o ParseCsvLine(s, i + 1, FALSE, "")
    ELSE IF CharAt(s, i) = "\"" /\ field = ""
         THEN ParseCsvLine(s, i + 1, TRUE, "")
    ELSE ParseCsvLine(s, i + 1, FALSE, field \o CharAt(s, i))

\* the text of an exported value: nothing for a missing one in the unified
\* engine, which writes row[col] ?? ""
ValueText(v) ==
    IF component = Unified /\ Nullish(v) THEN "" ELSE String(v)

\* a value as the claim has it written: a number as it is, anything else
\* between double quotes with every double quote of its own doubled
QuotedAndDoubled(v) ==
    IF typeof(v) = "number" THEN String(v)
    ELSE "\"" \o DoubleQuotes(ValueText(v)) \o "\""

\* C21: every data line of the CSV writes a number as it is and any other
\* value between double quotes with its own double quotes doubled, so
\* that reading the line back gives the values of the exported columns.
C21_QuotedRoundTrip ==
    (component \in {Unified, Tabbed} /\ csv.t = "file") =>
        \A i \in 1..Len(processedData) :
            LET values == [j \in 1..Len(csv.columns) |->
                              Get(processedData[i], csv.columns[j])]
            IN  /\ csv.lines[i + 1] =
                      Join([j \in 1..Len(values) |->
                               QuotedAndDoubled(values[j])], ",")
                /\ Len(csv.columns) > 0 =>
                      ParseCsvLine(csv.lines[i + 1], 1, FALSE, "") =
                          [j \in 1..Len(values) |-> ValueText(values[j])]

(***************************************************************************)
(* Properties of the chart type dispatcher                                 *)
(***************************************************************************)
\* the rendering path a view belongs to: the scatter chart and the table
\* of the unified engine show a message of their own for rows they cannot
\* draw
PathOf(path) ==
    CASE path \in {"Scatter chart requires both axes",
                   "Scatter chart axes must be numeric"} -> "scatter"
      [] path = "No data available" -> "table"
      [] OTHER -> path

\* the path of a type when each of the given chart types has a path of
\* its own and every other type goes to the fallback
PathByType(type, charts, fallback) ==
    IF type.t = "string" /\ type.s \in charts THEN type.s ELSE fallback

\* a config of the list is shown and its render did not throw
Dispatched == ~NoVisualizations(visualizations) /\ view.path # "TypeError"

\* C22 as claimed: the path shown is a function of config.type alone: bar,
\* line, pie and scatter have a path each, table and every other type go
\* to the table.
C22_PureMapping ==
    Dispatched =>
        PathOf(view.path) =
            PathByType(ActiveViz.type, {"bar", "line", "pie", "scatter"},
                       "table")

\* C22 as the code has it.  The unified engine shows "No data to display"
\* whatever the type when there are no rows, and otherwise maps the type
\* as claimed, as the tabbed component always does; the hook-based
\* component has no scatter path and sends scatter to the table;
\* AdvancedVisualization has the five paths and shows "Unsupported
\* visualization type" for any other type.
C22_PathByVariant ==
    Dispatched =>
        CASE component = Unified ->
                IF Len(processedData) = 0
                THEN view.path = "No data to display"
                ELSE PathOf(view.path) =
                        PathByType(ActiveViz.type,
                                   {"bar", "line", "pie", "scatter"}, "table")
          [] component = Tabbed ->
                view.path =
                    PathByType(ActiveViz.type,
                               {"bar", "line", "pie", "scatter"}, "table")
          [] component = Hooked ->
                view.path =
                    PathByType(ActiveViz.type, {"bar", "line", "pie"}, "table")
          [] OTHER ->
                view.path =
                    PathByType(ActiveViz.type,
                               {"bar", "line", "pie", "scatter", "table"},
                               "Unsupported visualization type")

\* the hook-based component shows a scatter config as a table, after a
\* switch from another tab
C22_Witness ==
    /\ component = Hooked
    /\ activeTab = 1
    /\ ActiveViz.type = Text("scatter")
    /\ Len(processedData) > 0
    /\ view.path = "table"

(***************************************************************************)
(* Properties of the export over no rows                                   *)
(***************************************************************************)
\* C23: with no rows (an empty or absent row set) or no active config the
\* export raises nothing and produces no file.
C23_EmptyExportIsQuiet ==
    (Len(processedData) = 0 \/ ActiveViz.t = "undefined") => csv = NoCsv

(***************************************************************************)
(* Properties of the chat                                                  *)
(***************************************************************************)
\* the calls of handleQuery that have run to their end
Done == {i \in 1..Len(calls) : calls[i].pc = "done"}

\* call i got a response and the response was OK
GotOk(i) == calls[i].status >= 200 /\ calls[i].status <= 299

\* the messages a render hands to the engine
EngineMessages(render) ==
    {render.engine[k].message : k \in 1..Len(render.engine)}

\* C24: every visualization on show, in the last commit or in a render of
\* the present state, comes from an assistant message that a call appended
\* after an OK response; a call whose fetch rejected or whose response was
\* not OK has appended an error message, which no render hands to the
\* engine.
C24_EngineOnlyAfterOk ==
    LET reached == EngineMessages(shown)
                      \cup EngineMessages(Rendered(isLoading, messages))
    IN  /\ \A m \in reached :
              /\ messages[m].type = "assistant"
              /\ \E i \in Done : GotOk(i) /\ calls[i].at + 2 = m
        /\ \A i \in Done :
              ~GotOk(i) =>
                  /\ messages[calls[i].at + 1] =
                        UserMessage(calls[i].queryText)
                  /\ messages[calls[i].at + 2].type = "error"
                  /\ reached \cap {calls[i].at + 1, calls[i].at + 2} = {}

\* a session of three queries: one whose fetch rejected, one answered 404
\* and one answered with rows and a config, the last one on show
C24_Witness ==
    /\ \E i \in Done : calls[i].status = 0
    /\ \E i \in Done : calls[i].status = 404
    /\ \E i \in Done : GotOk(i) /\ calls[i].at + 2 \in EngineMessages(shown)
    /\ Len(messages) = 6

(***************************************************************************)
(* Properties of the order in which the annotation variants are tried      *)
(***************************************************************************)
\* C25: a line spec of mode average with a numeric y gives the computed
\* average when there is a y column; a line spec of mode trend or
\* regression gives the maximum even with a numeric y; the line at the
\* spec's own y is given only when neither applies, as for an average spec
\* without a y column.
C25_VariantPrecedence ==
    keyOut.fn = "renderAnnotations" =>
        \A i \in 1..Len(AnnotationSpecs) :
            LET a == AnnotationSpecs[i]
                el == keyOut.out.items[i]
                computed == /\ a.type = Text("line")
                            /\ \/ a.mode = Text("average")
                                    /\ Truthy(AnnotationYKey)
                               \/ a.mode \in {Text("trend"),
                                              Text("regression")}
            IN  (a.type = Text("line") /\ typeof(a.y) = "number") =>
                    /\ el.el = "ReferenceLine"
                    /\ (a.mode = Text("average") /\ Truthy(AnnotationYKey))
                          => /\ el.y = avg(data.items, AnnotationYKey)
                             /\ el.label = Or(a.label, Text("Avg"))
                    /\ a.mode \in {Text("trend"), Text("regression")}
                          => /\ el.y = maxVal(data.items, AnnotationYKey)
                             /\ el.label = Or(a.label, Text("Trend/Max"))
                    /\ ~computed => el.y = a.y /\ el.label = a.label

\* an average spec and a regression spec, each with a numeric y of its
\* own, over rows with a y column: the lines are at the mean and the
\* maximum
C25_Witness ==
    /\ keyOut.fn = "renderAnnotations"
    /\ AnnotationSpecs = <<AnnoPool[2], AnnoPool[4]>>
    /\ rawKey = Text("y")
    /\ data.items = <<Row1("y", Num(10000)), Row1("y", Num(20000)),
                      Row1("y", Num(30000))>>
    /\ keyOut.out.items[1].y = Num(20000)
    /\ keyOut.out.items[2].y = Num(30000)

(***************************************************************************)
(* Properties of the y column of the annotations in the bar and the line   *)
(* chart of the unified engine                                             *)
(***************************************************************************)
\* a bar or a line chart of the unified engine whose config has specs
SeriesChartWithSpecs ==
    /\ component = Unified
    /\ view.path \in {"bar", "line"}
    /\ ActiveViz.annotations.t = "array"
    /\ Len(ActiveViz.annotations.items) > 0

\* the numeric columns of the first normalized row, the x column, name and
\* color apart
FirstRowSeries ==
    FilterSeq(ObjectKeys(processedData[1]),
              LAMBDA k : /\ typeof(Get(processedData[1], k)) = "number"
                         /\ Text(k) # cleanKey(AxisX(ActiveViz))
                         /\ k \notin {"name", "color"})

\* the spec at position i of the active config and what was drawn for it
IsMode(i, modes) ==
    /\ ActiveViz.annotations.items[i].type = Text("line")
    /\ ActiveViz.annotations.items[i].mode \in modes

\* the average and the maximum lines are computed over column key
ComputedOver(key) ==
    \A i \in 1..Len(ActiveViz.annotations.items) :
        /\ IsMode(i, {Text("average")}) =>
              view.annotations.items[i].y = avg(processedData, key)
        /\ IsMode(i, {Text("trend"), Text("regression")}) =>
              view.annotations.items[i].y = maxVal(processedData, key)

\* C26 as claimed: the computed lines of a bar or line chart are over the
\* first numeric series column of the first row, whatever the config's y
\* column; without such a column the y column is null and an average spec
\* gives no result.
C26_FirstSeriesOrNothing ==
    SeriesChartWithSpecs =>
        IF Len(FirstRowSeries) > 0
        THEN /\ view.yAxisKey = Text(FirstRowSeries[1])
             /\ ComputedOver(view.yAxisKey)
        ELSE /\ view.yAxisKey = Null
             /\ \A i \in 1..Len(ActiveViz.annotations.items) :
                   IsMode(i, {Text("average")}) =>
                       view.annotations.items[i] = NoElement

\* C26 as the code has it: as claimed, but without a numeric series column
\* an average spec gives no result only if it has no numeric y of its own;
\* with one it gives the line at that y.
C26_FirstSeriesOrFixed ==
    SeriesChartWithSpecs =>
        IF Len(FirstRowSeries) > 0
        THEN /\ view.yAxisKey = Text(FirstRowSeries[1])
             /\ ComputedOver(view.yAxisKey)
        ELSE /\ view.yAxisKey = Null
             /\ \A i \in 1..Len(ActiveViz.annotations.items) :
                   IsMode(i, {Text("average")}) =>
                       LET a == ActiveViz.annotations.items[i]
                       IN  IF typeof(a.y) = "number"
                           THEN /\ view.annotations.items[i].el =
                                      "ReferenceLine"
                                /\ view.annotations.items[i].y = a.y
                           ELSE view.annotations.items[i] = NoElement

\* a line chart over rows whose first row has no numeric column: the
\* average spec with y 99 is drawn at 99; the config's y column is not
\* the one a chart with numeric columns would use
C26_Witness ==
    /\ SeriesChartWithSpecs
    /\ activeTab = 1
    /\ FirstRowSeries = <<>>
    /\ Len(processedData) > 1
    /\ ActiveViz.annotations.items[1] = AnnoPool[2]
    /\ view.annotations.items[1].y = Num(99000)

(***************************************************************************)
(* Properties of the shape of the exported lines                           *)
(***************************************************************************)
\* the cells of an exported line, as written
RawCells(line) == SplitAll(line, ",")

\* a text without its double quotes, so that a field compares to its value
\* however the quotes inside it were written
RECURSIVE NoQuotes(_)
NoQuotes(s) ==
    IF s = "" THEN ""
    ELSE (IF CharAt(s, 1) = "\"" THEN "" ELSE CharAt(s, 1))
            \o NoQuotes(Tail(s))

\* C27: every data line of the CSV has as many fields as the header and
\* field j is the row's value of column j, a missing one written as an
\* empty quoted string, whatever keys the rows after the first have.
C27_LinesMatchHeader ==
    (component \in {Unified, Tabbed, Advanced} /\ csv.t = "file") =>
        \A i \in 1..Len(processedData) :
            LET fields == ParseCsvLine(csv.lines[i + 1], 1, FALSE, "")
            IN  /\ Len(fields) =
                      Len(ParseCsvLine(csv.lines[1], 1, FALSE, ""))
                /\ \A j \in 1..Len(csv.columns) :
                      IF Has(processedData[i], csv.columns[j])
                      THEN NoQuotes(fields[j]) =
                              NoQuotes(ValueText(Get(processedData[i],
                                                     csv.columns[j])))
                      ELSE RawCells(csv.lines[i + 1])[j] = "\"\""

(***************************************************************************)
(* Properties of the submits                                               *)
(***************************************************************************)
\* the calls of handleQuery whose fetch or whose response.json() has not
\* settled
InFlight == {i \in 1..Len(calls) : calls[i].pc # "done"}

\* C28: at most one request is in flight; isLoading is true exactly from
\* the start of handleQuery until its request has settled, and while it is
\* true no submit, by the button or by Enter, calls handleQuery; no query
\* that is empty or only whitespace is ever sent.
C28_OneInFlight ==
    /\ [](/\ Cardinality(InFlight) <= 1
          /\ isLoading = (InFlight # {})
          /\ \A i \in 1..Len(calls) : trim(calls[i].queryText) # "")
    /\ [][isLoading => calls' = calls \/ Len(calls') = Len(calls)]_vars

\* a second query typed while the first one, sent after an earlier one had
\* failed, is still waiting for its response
C28_Witness ==
    /\ Len(calls) = 2
    /\ calls[1].pc = "done"
    /\ calls[2].pc = "json"
    /\ isLoading /\ shown.isLoading
    /\ trim(query) # ""

(***************************************************************************)
(* Properties of the end of handleQuery                                    *)
(***************************************************************************)
\* call k runs to its end in the step
Ends(k) == calls[k].pc # "done" /\ calls'[k].pc = "done"

\* C29: every call of handleQuery comes to its end with isLoading false
\* again, and the step that ends it is the one step in which it appends
\* to the messages: the user message of its query and then one assistant
\* message, only after an OK response, or else one error message.
C29_EndsIdleWithTwoMessages ==
    /\ \A k \in 1..MaxQueries :
          (Len(calls) >= k) ~>
              (Len(calls) >= k /\ calls[k].pc = "done" /\ ~isLoading)
    /\ [][/\ \A k \in 1..Len(calls) :
               Ends(k) =>
                   /\ isLoading' = FALSE
                   /\ Len(messages') = Len(messages) + 2
                   /\ SubSeq(messages', 1, Len(messages)) = messages
                   /\ messages'[Len(messages) + 1] =
                         UserMessage(calls[k].queryText)
                   /\ messages'[Len(messages) + 2].type \in
                         {"assistant", "error"}
                   /\ messages'[Len(messages) + 2].type = "assistant" =>
                         calls'[k].status \in 200..299
          /\ messages' # messages => \E k \in 1..Len(calls) : Ends(k)
         ]_vars

\* three queries have ended: one answered, one failed, nothing loading and
\* six messages in the chat
C29_Witness ==
    /\ Len(calls) = 3
    /\ Done = {1, 2, 3}
    /\ ~isLoading
    /\ Len(messages) = 6
    /\ messages[2].type = "error"
    /\ messages[4].type = "assistant"
    /\ messages[5] = UserMessage(calls[3].queryText)

====
